---- MODULE Spec2Model ----
(***************************************************************************)
(* Model of configargparse.py: the value-resolution engine that merges the *)
(* command line, environment variables and config files into one token     *)
(* list, hands it to argparse and records where each value came from.      *)
(*                                                                         *)
(* Strings are sequences of one-character strings, so that strip, lower,   *)
(* split, startswith and the config-line regular expressions are computed  *)
(* character by character, as the Python code computes them.               *)
(***************************************************************************)
EXTENDS Integers, Sequences, FiniteSets, TLC

(***************************************************************************)
(* Python str helpers                                                      *)
(***************************************************************************)

\* the characters matched by \s and removed by str.strip()
WhiteSpace == {" ", "\t", "\n", "\r"}

IsWS(c) == c \in WhiteSpace

SetMin(S) == CHOOSE m \in S : \A o \in S : m <= o

SetMax(S) == CHOOSE m \in S : \A o \in S : m >= o

\* s[i:] with a 1-based first index
From(s, i) == SubSeq(s, i, Len(s))

\* str.startswith
StartsWith(s, p) == Len(p) <= Len(s) /\ SubSeq(s, 1, Len(p)) = p

\* str.endswith
EndsWith(s, p) == Len(p) <= Len(s) /\ SubSeq(s, Len(s) - Len(p) + 1, Len(s)) = p

\* x in s, for a character x and a string s
HasChar(s, c) == \E i \in 1..Len(s) : s[i] = c

\* x in l, for a list l
InList(l, x) == \E i \in 1..Len(l) : l[i] = x

\* str.strip(chars): drop the leading and trailing characters that are in chars
StripChars(s, chars) ==
    LET keep == {i \in 1..Len(s) : s[i] \notin chars}
    IN  IF keep = {} THEN <<>> ELSE SubSeq(s, SetMin(keep), SetMax(keep))

\* str.strip()
Strip(s) == StripChars(s, WhiteSpace)

UpperToLower ==
    [c \in {"A","B","C","D","E","F","G","H","I","J","K","L","M",
            "N","O","P","Q","R","S","T","U","V","W","X","Y","Z"} |->
        CASE c = "A" -> "a" [] c = "B" -> "b" [] c = "C" -> "c" [] c = "D" -> "d"
          [] c = "E" -> "e" [] c = "F" -> "f" [] c = "G" -> "g" [] c = "H" -> "h"
          [] c = "I" -> "i" [] c = "J" -> "j" [] c = "K" -> "k" [] c = "L" -> "l"
          [] c = "M" -> "m" [] c = "N" -> "n" [] c = "O" -> "o" [] c = "P" -> "p"
          [] c = "Q" -> "q" [] c = "R" -> "r" [] c = "S" -> "s" [] c = "T" -> "t"
          [] c = "U" -> "u" [] c = "V" -> "v" [] c = "W" -> "w" [] c = "X" -> "x"
          [] c = "Y" -> "y" [] c = "Z" -> "z"]

\* str.lower()
Lower(s) == [i \in 1..Len(s) |->
                IF s[i] \in DOMAIN UpperToLower THEN UpperToLower[s[i]] ELSE s[i]]

\* str.upper()
Upper(s) == [i \in 1..Len(s) |->
                IF \E u \in DOMAIN UpperToLower : UpperToLower[u] = s[i]
                THEN CHOOSE u \in DOMAIN UpperToLower : UpperToLower[u] = s[i]
                ELSE s[i]]

\* str.replace(old, new) for one-character old and new
Replace(s, old, new) == [i \in 1..Len(s) |-> IF s[i] = old THEN new ELSE s[i]]

\* str.split(sep) for a one-character separator: the pieces between the
\* separators, empty pieces included ("".split(",") is [""])
RECURSIVE Split(_, _)
Split(s, sep) ==
    LET cuts == {i \in 1..Len(s) : s[i] = sep}
    IN  IF cuts = {} THEN <<s>>
        ELSE LET c == SetMin(cuts)
             IN  <<SubSeq(s, 1, c - 1)>> \o Split(From(s, c + 1), sep)

\* the concatenation of a list of lists
RECURSIVE Flatten(_)
Flatten(ll) == IF ll = <<>> THEN <<>> ELSE Head(ll) \o Flatten(Tail(ll))

(***************************************************************************)
(* ConfigFileParser.parse                                                  *)
(***************************************************************************)

\* the character class [^:=;#\s] of the key group
KeyChar(c) == c \notin {":", "=", ";", "#"} /\ ~IsWS(c)

\* the character class [^;#] of the value group of value1
Value1Char(c) == c \notin {";", "#"}

\* the character class [^;#\s] of the value group of value2
Value2Char(c) == c \notin {";", "#"} /\ ~IsWS(c)

\* c is in the character class: \s, or the class of the key group, of the
\* value group of value1 or of the value group of value2
InClass(c, class) ==
    CASE class = "ws"     -> IsWS(c)
      [] class = "key"    -> KeyChar(c)
      [] class = "value1" -> Value1Char(c)
      [] class = "value2" -> Value2Char(c)

AllOf(s, class) == \A i \in 1..Len(s) : InClass(s[i], class)

\* r matches  \s*$: a pattern that knows no trailing comment
MatchesBlankOnly(r) == AllOf(r, "ws")

\* r matches  \s*(?P<comment>\s[;#].*)?$
MatchesComment(r) ==
    \/ AllOf(r, "ws")
    \/ \E m \in 0..Len(r) :
          /\ m + 2 <= Len(r)
          /\ AllOf(SubSeq(r, 1, m), "ws")
          /\ IsWS(r[m + 1])
          /\ r[m + 2] \in {";", "#"}

NoMatch == [matched |-> FALSE]

\* re.match("^" + key + comment + "$", line); the key group is lazy, so the
\* shortest key that lets the rest match is the one captured
KeyOnlyMatch(line) ==
    LET K == {k \in 1..Len(line) :
                /\ AllOf(SubSeq(line, 1, k), "key")
                /\ MatchesComment(From(line, k + 1))}
    IN  IF K = {} THEN NoMatch
        ELSE [matched |-> TRUE, key |-> SubSeq(line, 1, SetMin(K))]

\* re.match("^" + key + value1 + comment + "$", line) with
\* value1 = \s*[:=]\s*(?P<value>[^;#]+?): lazy key, greedy \s*, lazy value
Value1Match(line) ==
    LET n == Len(line)
        \* <<k, a>>: key line[1..k], a white-space characters, then [:=]
        KA == {ka \in (1..n) \X (0..n) :
                 /\ ka[1] + ka[2] + 1 <= n
                 /\ AllOf(SubSeq(line, 1, ka[1]), "key")
                 /\ AllOf(SubSeq(line, ka[1] + 1, ka[1] + ka[2]), "ws")
                 /\ line[ka[1] + ka[2] + 1] \in {":", "="}}
        \* <<b, v>>: b white-space characters after the separator at p, then
        \* a value of v characters, then the comment
        BV(p) == {bv \in (0..n) \X (1..n) :
                 /\ p + bv[1] + bv[2] <= n
                 /\ AllOf(SubSeq(line, p + 1, p + bv[1]), "ws")
                 /\ AllOf(SubSeq(line, p + bv[1] + 1, p + bv[1] + bv[2]), "value1")
                 /\ MatchesComment(From(line, p + bv[1] + bv[2] + 1))}
        Good == {ka \in KA : BV(ka[1] + ka[2] + 1) # {}}
    IN  IF Good = {} THEN NoMatch
        ELSE LET k  == SetMin({ka[1] : ka \in Good})
                 a  == SetMax({ka[2] : ka \in {g \in Good : g[1] = k}})
                 p  == k + a + 1
                 b  == SetMax({bv[1] : bv \in BV(p)})
                 v  == SetMin({bv[2] : bv \in {c \in BV(p) : c[1] = b}})
             IN  [matched |-> TRUE, key |-> SubSeq(line, 1, k),
                  value |-> SubSeq(line, p + b + 1, p + b + v)]

\* re.match("^" + key + value2 + comment + "$", line) with
\* value2 = \s*[\s]\s*(?P<value>[^;#\s]+?)
Value2Match(line) ==
    LET n == Len(line)
        \* <<k, a, v>>: key line[1..k], a >= 1 white-space characters, a value
        \* of v characters, then the comment
        KAV == {t \in (1..n) \X (1..n) \X (1..n) :
                 /\ t[1] + t[2] + t[3] <= n
                 /\ AllOf(SubSeq(line, 1, t[1]), "key")
                 /\ AllOf(SubSeq(line, t[1] + 1, t[1] + t[2]), "ws")
                 /\ AllOf(SubSeq(line, t[1] + t[2] + 1, t[1] + t[2] + t[3]), "value2")
                 /\ MatchesComment(From(line, t[1] + t[2] + t[3] + 1))}
    IN  IF KAV = {} THEN NoMatch
        ELSE LET k == SetMin({t[1] : t \in KAV})
                 a == SetMax({t[2] : t \in {c \in KAV : c[1] = k}})
                 v == SetMin({t[3] : t \in {c \in KAV : c[1] = k /\ c[2] = a}})
             IN  [matched |-> TRUE, key |-> SubSeq(line, 1, k),
                  value |-> SubSeq(line, k + a + 1, k + a + v)]

\* the value "true" given to a key that stands alone on its line
TrueValue == <<"t", "r", "u", "e">>

\* a loop body that passes over every line
ParseLineLenient(raw) == [kind |-> "skip"]

\* one iteration of the loop of ConfigFileParser.parse over the lines of a
\* stream: what the line contributes
ParseLine(raw) ==
    LET FirstMatch(line, key_only_match, value1_match, value2_match) ==
            IF line = <<>> \/ line[1] \in {"#", ";", "["}
               \/ StartsWith(line, <<"-", "-", "-">>)
            THEN [kind |-> "skip"]
            ELSE IF key_only_match.matched
            THEN [kind |-> "set", key |-> key_only_match.key, value |-> TrueValue]
            ELSE IF value1_match.matched
            THEN [kind |-> "set", key |-> value1_match.key, value |-> value1_match.value]
            ELSE IF value2_match.matched
            THEN [kind |-> "set", key |-> value2_match.key, value |-> value2_match.value]
            ELSE [kind |-> "error"]
    IN  FirstMatch(Strip(raw), KeyOnlyMatch(Strip(raw)), Value1Match(Strip(raw)),
                   Value2Match(Strip(raw)))

\* an OrderedDict that keeps the value a key was first given
DictSetFirst(d, key, value) ==
    IF \E i \in 1..Len(d) : d[i].key = key THEN d
    ELSE Append(d, [key |-> key, value |-> value])

\* settings[key] = value on an OrderedDict held as a list of (key, value)
\* pairs: a key already present keeps its place and takes the new value
DictSet(d, key, value) ==
    IF \E i \in 1..Len(d) : d[i].key = key
    THEN [i \in 1..Len(d) |-> IF d[i].key = key THEN [key |-> key, value |-> value] ELSE d[i]]
    ELSE Append(d, [key |-> key, value |-> value])

\* ConfigFileParser.parse(stream): the settings of the stream, or the
\* exception raised at the first line that matches nothing (i is the index
\* enumerate() gives the line, counted from 0)
RECURSIVE ParseFrom(_, _, _)
ParseFrom(lines, i, settings) ==
    IF i > Len(lines) THEN [ok |-> TRUE, settings |-> settings]
    ELSE LET After(r) ==
                CASE r.kind = "skip"  -> ParseFrom(lines, i + 1, settings)
                  [] r.kind = "set"   ->
                        ParseFrom(lines, i + 1, DictSet(settings, r.key, r.value))
                  [] r.kind = "error" ->
                        [ok |-> FALSE, line_index |-> i - 1, line |-> Strip(lines[i])]
         IN  After(ParseLine(lines[i]))

parse(lines) == ParseFrom(lines, 1, <<>>)

(***************************************************************************)
(* Options (argparse actions with the attributes add_argument attaches)    *)
(***************************************************************************)

\* ArgumentParser.__init__: prefix_chars='-'
prefix_chars == <<"-">>

PrefixCharSet == {prefix_chars[i] : i \in 1..Len(prefix_chars)}

\* the action classes that take no value from the command line
ACTION_TYPES_THAT_DONT_NEED_A_VALUE ==
    {"store_true", "store_false", "count", "store_const", "append_const"}

\* Python's None, for an action, an env_var, a default or a bound value
None == [t |-> "none"]

\* a str value
Str(s) == [t |-> "str", v |-> s]

\* a bool value
Bool(b) == [t |-> "bool", v |-> b]

\* a list of str
List(l) == [t |-> "list", v |-> l]

\* a merge that never finds an option on the command line
already_on_command_line_never(existing_args, potential_command_line_args) == FALSE

\* already_on_command_line(existing_args, potential_command_line_args)
already_on_command_line(existing_args, potential_command_line_args) ==
    \E i \in 1..Len(potential_command_line_args) :
        InList(existing_args, potential_command_line_args[i])

\* what `for potential_arg in s` yields when s is a str: its characters, each
\* a one-character str
IterateStr(s) == [i \in 1..Len(s) |-> <<s[i]>>]

\* ArgumentParser.get_command_line_key_for_unknown_config_file_setting
get_command_line_key_for_unknown_config_file_setting(key) ==
    LET key_without_prefix_chars == StripChars(key, PrefixCharSet)
    IN  <<prefix_chars[1], prefix_chars[1]>> \o key_without_prefix_chars

\* ArgumentParser.get_possible_config_keys
get_possible_config_keys(action) ==
    Flatten([i \in 1..Len(action.option_strings) |->
        LET arg == action.option_strings[i]
        IN  IF \E c \in PrefixCharSet : StartsWith(arg, <<c, c>>)
            THEN <<From(arg, 3), arg>>
            ELSE <<>>])

\* a conversion that takes every value as a plain one
convert_setting_as_plain_value(action, key, value) ==
    [error |-> FALSE,
     args |-> <<IF action = None
                THEN get_command_line_key_for_unknown_config_file_setting(key)
                ELSE action.option_strings[Len(action.option_strings)], value>>]

\* ArgumentParser.convert_setting_to_command_line_arg: the tokens for one
\* (key, value) setting, or the message self.error() is called with (error()
\* does not return, so no tokens come back then)
convert_setting_to_command_line_arg(action, key, value) ==
    LET command_line_key ==
            IF action = None
            THEN get_command_line_key_for_unknown_config_file_setting(key)
            ELSE action.option_strings[Len(action.option_strings)]
    IN  IF Lower(value) = <<"t", "r", "u", "e">>
        THEN IF action # None /\ action.kind \notin ACTION_TYPES_THAT_DONT_NEED_A_VALUE
             THEN [error |-> TRUE, msg |-> [what |-> "set to 'True' rather than a value",
                                            key |-> key, value |-> value]]
             ELSE [error |-> FALSE, args |-> <<command_line_key>>]
        ELSE IF StartsWith(value, <<"[">>) /\ EndsWith(value, <<"]">>)
        THEN IF action # None /\ action.kind # "append"
             THEN [error |-> TRUE, msg |-> [what |-> "can't be set to a list",
                                            key |-> key, value |-> value]]
             ELSE LET elems == Split(SubSeq(value, 2, Len(value) - 1), ",")
                  IN  [error |-> FALSE,
                       args |-> Flatten([i \in 1..Len(elems) |->
                                    <<command_line_key, Strip(elems[i])>>])]
        ELSE IF action # None /\ action.kind \in ACTION_TYPES_THAT_DONT_NEED_A_VALUE
             THEN [error |-> TRUE, msg |-> [what |-> "is a flag but is being set to",
                                            key |-> key, value |-> value]]
             ELSE [error |-> FALSE, args |-> <<command_line_key, value>>]

(***************************************************************************)
(* The flag engine: argparse.ArgumentParser.parse_known_args, for optional *)
(* arguments whose action is store, append, store_true, store_false, count *)
(* or help (Python 3.11)                                                   *)
(***************************************************************************)

\* argparse.SUPPRESS, the default of the help action
SUPPRESS == [t |-> "suppress"]

\* self._option_string_actions[s]: the action registered for option string s
\* (a later registration of the same string replaces an earlier one)
OptionStringAction(acts, s) ==
    LET owners == {i \in 1..Len(acts) : InList(acts[i].option_strings, s)}
    IN  IF owners = {} THEN None ELSE acts[SetMax(owners)]

\* the keys of self._option_string_actions
OptionStrings(acts) ==
    UNION {{acts[i].option_strings[j] : j \in 1..Len(acts[i].option_strings)} :
              i \in 1..Len(acts)}

\* arg_string.split('=', 1)
SplitAtEquals(s) ==
    LET c == SetMin({i \in 1..Len(s) : s[i] = "="})
    IN  [before |-> SubSeq(s, 1, c - 1), after |-> From(s, c + 1)]

Digits == {"0", "1", "2", "3", "4", "5", "6", "7", "8", "9"}

\* self._negative_number_matcher: '^-\d+$|^-\d*\.\d+$'
NegativeNumber(s) ==
    /\ Len(s) >= 2
    /\ s[1] = "-"
    /\ \/ \A i \in 2..Len(s) : s[i] \in Digits
       \/ \E d \in 2..Len(s) - 1 :
             /\ s[d] = "."
             /\ \A i \in (2..Len(s)) \ {d} : s[i] \in Digits

\* self._has_negative_number_optionals: an option string that looks like a
\* negative number was registered
HasNegativeNumberOptionals(acts) == \E o \in OptionStrings(acts) : NegativeNumber(o)

\* ArgumentParser._get_option_tuples: the registered option strings that
\* option_string abbreviates (or, with one dash, is a short flag glued to
\* its argument), as (option string, explicit argument) pairs
get_option_tuples(acts, option_string) ==
    IF option_string[1] \in PrefixCharSet /\ option_string[2] \in PrefixCharSet
    THEN LET has_eq == HasChar(option_string, "=")
             option_prefix == IF has_eq THEN SplitAtEquals(option_string).before
                              ELSE option_string
             explicit_arg == IF has_eq THEN Str(SplitAtEquals(option_string).after)
                             ELSE None
         IN  {[action |-> OptionStringAction(acts, o), option_string |-> o,
               explicit_arg |-> explicit_arg] :
                 o \in {x \in OptionStrings(acts) : StartsWith(x, option_prefix)}}
    ELSE LET short_option_prefix == SubSeq(option_string, 1, 2)
             short_explicit_arg == From(option_string, 3)
         IN  {[action |-> OptionStringAction(acts, o), option_string |-> o,
               explicit_arg |-> IF o = short_option_prefix THEN Str(short_explicit_arg)
                                ELSE None] :
                 o \in {x \in OptionStrings(acts) :
                          x = short_option_prefix \/ StartsWith(x, option_string)}}

\* the pattern letter 'A' of an argument
Positional == [cls |-> "A"]

\* ArgumentParser._parse_optional: None ('A') for an argument, the option
\* tuple for an option ('O'), or the error of an ambiguous abbreviation
parse_optional(acts, arg_string) ==
    IF arg_string = <<>> THEN Positional
    ELSE IF arg_string[1] \notin PrefixCharSet THEN Positional
    ELSE IF arg_string \in OptionStrings(acts)
    THEN [cls |-> "O", action |-> OptionStringAction(acts, arg_string),
          option_string |-> arg_string, explicit_arg |-> None]
    ELSE IF Len(arg_string) = 1 THEN Positional
    ELSE IF HasChar(arg_string, "=")
            /\ SplitAtEquals(arg_string).before \in OptionStrings(acts)
    THEN [cls |-> "O",
          action |-> OptionStringAction(acts, SplitAtEquals(arg_string).before),
          option_string |-> SplitAtEquals(arg_string).before,
          explicit_arg |-> Str(SplitAtEquals(arg_string).after)]
    ELSE LET option_tuples == get_option_tuples(acts, arg_string)
         IN  IF Cardinality(option_tuples) > 1
             THEN [cls |-> "error", msg |-> [what |-> "ambiguous option", key |-> arg_string]]
             ELSE IF Cardinality(option_tuples) = 1
             THEN LET t == CHOOSE x \in option_tuples : TRUE
                  IN  [cls |-> "O", action |-> t.action, option_string |-> t.option_string,
                       explicit_arg |-> t.explicit_arg]
             ELSE IF NegativeNumber(arg_string) /\ ~HasNegativeNumberOptionals(acts)
             THEN Positional
             ELSE IF HasChar(arg_string, " ") THEN Positional
             ELSE [cls |-> "O", action |-> None, option_string |-> arg_string,
                   explicit_arg |-> None]

\* the classification of every token ('O', 'A', or '-' for the first "--",
\* after which everything is an argument)
PatternParts(acts, arg_strings) ==
    LET dashes == {i \in 1..Len(arg_strings) : arg_strings[i] = <<"-", "-">>}
    IN  [i \in 1..Len(arg_strings) |->
            IF dashes # {} /\ i = SetMin(dashes) THEN [cls |-> "-"]
            ELSE IF dashes # {} /\ i > SetMin(dashes) THEN Positional
            ELSE parse_optional(acts, arg_strings[i])]

\* the number of command-line values the action takes (nargs=None is one
\* value; the flag actions and help are declared with nargs=0)
NArgs(action) == IF action.kind \in {"store", "append"} THEN 1 ELSE 0

\* Action.__call__ of the action classes: the namespace after the action
TakeAction(ns, action, args) ==
    CASE action.kind = "store"       -> [ns EXCEPT ![action.dest] = Str(args[1])]
      [] action.kind = "append"      ->
            [ns EXCEPT ![action.dest] =
                List((IF ns[action.dest] = None THEN <<>> ELSE ns[action.dest].v)
                        \o <<args[1]>>)]
      [] action.kind = "store_true"  -> [ns EXCEPT ![action.dest] = Bool(TRUE)]
      [] action.kind = "store_false" -> [ns EXCEPT ![action.dest] = Bool(FALSE)]
      [] action.kind = "count"       ->
            [ns EXCEPT ![action.dest] =
                [t |-> "int", v |-> (IF ns[action.dest] = None THEN 0 ELSE ns[action.dest].v) + 1]]

\* consume_optional: the (action, args) pairs of the option at index i and
\* the index where its arguments stop, or the ArgumentError raised
RECURSIVE ConsumeTuples(_, _, _, _, _, _, _)
ConsumeTuples(acts, arg_strings, parts, i, action, option_string, explicit_arg) ==
    IF explicit_arg # None
    THEN IF NArgs(action) = 0 /\ option_string[2] \notin PrefixCharSet /\ explicit_arg.v # <<>>
         THEN LET next_option_string == <<option_string[1], explicit_arg.v[1]>>
                  new_explicit_arg == IF Len(explicit_arg.v) = 1 THEN None
                                      ELSE Str(Tail(explicit_arg.v))
              IN  IF next_option_string \in OptionStrings(acts)
                  THEN LET rest == ConsumeTuples(acts, arg_strings, parts, i,
                                       OptionStringAction(acts, next_option_string),
                                       next_option_string, new_explicit_arg)
                       IN  IF rest.error THEN rest
                           ELSE [rest EXCEPT !.tuples =
                                    <<[action |-> action, args |-> <<>>]>> \o rest.tuples]
                  ELSE [error |-> TRUE, msg |-> [what |-> "ignored explicit argument",
                                                 key |-> option_string]]
         ELSE IF NArgs(action) = 1
         THEN [error |-> FALSE, stop |-> i + 1,
               tuples |-> <<[action |-> action, args |-> <<explicit_arg.v>>]>>]
         ELSE [error |-> TRUE, msg |-> [what |-> "ignored explicit argument",
                                        key |-> option_string]]
    ELSE IF NArgs(action) = 0
         THEN [error |-> FALSE, stop |-> i + 1,
               tuples |-> <<[action |-> action, args |-> <<>>]>>]
         ELSE IF i + 1 <= Len(arg_strings) /\ parts[i + 1].cls = "A"
         THEN [error |-> FALSE, stop |-> i + 2,
               tuples |-> <<[action |-> action, args |-> <<arg_strings[i + 1]>>]>>]
         ELSE [error |-> TRUE, msg |-> [what |-> "expected one argument",
                                        key |-> option_string]]

\* take_action over the pairs of one option string, in order; the help
\* action prints the help and exits with status 0
RECURSIVE TakeActions(_, _)
TakeActions(st, tuples) ==
    IF tuples = <<>> \/ st.outcome # "ok" THEN st
    ELSE LET t == Head(tuples)
         IN  IF t.action.kind = "help"
             THEN [st EXCEPT !.outcome = "exit", !.status = 0]
             ELSE TakeActions([st EXCEPT !.namespace = TakeAction(st.namespace, t.action, t.args),
                                         !.seen = st.seen \cup {t.action.dest}],
                              Tail(tuples))

\* the loop of _parse_known_args from index start: options are consumed, and
\* what is no option and no option's argument goes to extras (no positional
\* argument is declared)
RECURSIVE ConsumeFrom(_, _, _, _, _)
ConsumeFrom(acts, arg_strings, parts, start, st) ==
    LET option_indices == {j \in start..Len(arg_strings) : parts[j].cls = "O"}
    IN  IF st.outcome # "ok" THEN st
        ELSE IF option_indices = {}
        THEN [st EXCEPT !.extras = st.extras \o From(arg_strings, start)]
        ELSE LET i == SetMin(option_indices)
                 skipped == [st EXCEPT !.extras = st.extras \o SubSeq(arg_strings, start, i - 1)]
             IN  IF parts[i].action = None
                 THEN ConsumeFrom(acts, arg_strings, parts, i + 1,
                          [skipped EXCEPT !.extras = skipped.extras \o <<arg_strings[i]>>])
                 ELSE LET c == ConsumeTuples(acts, arg_strings, parts, i, parts[i].action,
                                             parts[i].option_string, parts[i].explicit_arg)
                      IN  IF c.error
                          THEN [skipped EXCEPT !.outcome = "error", !.msg = c.msg]
                          ELSE ConsumeFrom(acts, arg_strings, parts, c.stop,
                                           TakeActions(skipped, c.tuples))

\* the namespace argparse starts from: every action's default, except where
\* the destination or the default is SUPPRESS
DefaultNamespace(acts) ==
    [d \in {acts[i].dest : i \in {j \in 1..Len(acts) : acts[j].default # SUPPRESS}} |->
        acts[SetMin({i \in 1..Len(acts) : acts[i].dest = d /\ acts[i].default # SUPPRESS})].default]

NoMsg == [what |-> "", key |-> <<>>]

\* argparse.ArgumentParser.parse_known_args(args): the bound namespace and
\* the unrecognized tokens, or error() (exit status 2), or the exit of help
argparse_parse_known_args(acts, arg_strings) ==
    LET st0 == [outcome |-> "ok", status |-> 0, msg |-> NoMsg,
                namespace |-> DefaultNamespace(acts), extras |-> <<>>, seen |-> {}]
        Consumed(parts) ==
            LET ambiguous == {i \in 1..Len(arg_strings) : parts[i].cls = "error"}
            IN  IF ambiguous # {}
                THEN [st0 EXCEPT !.outcome = "error", !.msg = parts[SetMin(ambiguous)].msg]
                ELSE ConsumeFrom(acts, arg_strings, parts, 1, st0)
        Checked(st1) ==
            LET missing == {i \in 1..Len(acts) :
                              acts[i].required /\ acts[i].dest \notin st1.seen}
            IN  IF st1.outcome = "ok" /\ missing # {}
                THEN [st1 EXCEPT !.outcome = "error",
                                 !.msg = [what |-> "the following arguments are required",
                                          key |-> acts[SetMin(missing)].option_strings[1]]]
                ELSE st1
    IN  Checked(Consumed(PatternParts(acts, arg_strings)))

(***************************************************************************)
(* The parser under study: the options the tests register                  *)
(***************************************************************************)

s_arg == <<"a", "r", "g">>

\* add_argument("-h", "--help", action="help", default=SUPPRESS), which
\* argparse registers itself (add_help=True)
HelpAction ==
    [dest |-> "help", option_strings |-> <<<<"-", "h">>, <<"-", "-", "h", "e", "l", "p">>>>,
     kind |-> "help", default |-> SUPPRESS, required |-> FALSE, env_var |-> None,
     is_config_file_arg |-> FALSE, is_write_out_config_file_arg |-> FALSE,
     is_positional_arg |-> FALSE]

\* args_for_setting_config_path=["-c", "--config"]: the config-path option
ConfigAction ==
    [dest |-> "config_file",
     option_strings |-> <<<<"-", "c">>, <<"-", "-", "c", "o", "n", "f", "i", "g">>>>,
     kind |-> "store", default |-> None, required |-> FALSE, env_var |-> None,
     is_config_file_arg |-> TRUE, is_write_out_config_file_arg |-> FALSE,
     is_positional_arg |-> FALSE]

s_write_config == <<"w", "r", "i", "t", "e", "-", "c", "o", "n", "f", "i", "g">>

\* args_for_writing_out_config_file=["-w", "--write-config"]: the write-out
\* option
WriteAction ==
    [dest |-> "write_out_config_file_to_this_path",
     option_strings |-> <<<<"-", "w">>, <<"-", "-">> \o s_write_config>>,
     kind |-> "store", default |-> None, required |-> FALSE, env_var |-> None,
     is_config_file_arg |-> FALSE, is_write_out_config_file_arg |-> TRUE,
     is_positional_arg |-> FALSE]

\* add_argument("-a", "--arg", env_var="ARG", default="d"): a scalar option
ArgAction ==
    [dest |-> "arg", option_strings |-> <<<<"-", "a">>, <<"-", "-">> \o s_arg>>,
     kind |-> "store", default |-> Str(<<"d">>), required |-> FALSE,
     env_var |-> Str(<<"A", "R", "G">>),
     is_config_file_arg |-> FALSE, is_write_out_config_file_arg |-> FALSE,
     is_positional_arg |-> FALSE]

\* add_argument("-x", "--flag", action="store_true", env_var="FLAG")
FlagAction ==
    [dest |-> "flag", option_strings |-> <<<<"-", "x">>, <<"-", "-", "f", "l", "a", "g">>>>,
     kind |-> "store_true", default |-> Bool(FALSE), required |-> FALSE,
     env_var |-> Str(<<"F", "L", "A", "G">>),
     is_config_file_arg |-> FALSE, is_write_out_config_file_arg |-> FALSE,
     is_positional_arg |-> FALSE]

\* add_argument("-n", "--nflag", action="store_false", env_var="NFLAG")
NFlagAction ==
    [dest |-> "nflag", option_strings |-> <<<<"-", "n">>, <<"-", "-", "n", "f", "l", "a", "g">>>>,
     kind |-> "store_false", default |-> Bool(TRUE), required |-> FALSE,
     env_var |-> Str(<<"N", "F", "L", "A", "G">>),
     is_config_file_arg |-> FALSE, is_write_out_config_file_arg |-> FALSE,
     is_positional_arg |-> FALSE]

\* add_argument("-l", "--list", action="append", env_var="LIST")
ListAction ==
    [dest |-> "list", option_strings |-> <<<<"-", "l">>, <<"-", "-", "l", "i", "s", "t">>>>,
     kind |-> "append", default |-> None, required |-> FALSE,
     env_var |-> Str(<<"L", "I", "S", "T">>),
     is_config_file_arg |-> FALSE, is_write_out_config_file_arg |-> FALSE,
     is_positional_arg |-> FALSE]

\* add_argument("-C", is_config_file_arg=True): a second config-path option
Config2Action ==
    [dest |-> "C", option_strings |-> <<<<"-", "C">>>>,
     kind |-> "store", default |-> None, required |-> FALSE, env_var |-> None,
     is_config_file_arg |-> TRUE, is_write_out_config_file_arg |-> FALSE,
     is_positional_arg |-> FALSE]

\* self._actions once the options are registered
RegisteredActions ==
    <<HelpAction, ConfigAction, WriteAction, ArgAction, FlagAction, NFlagAction,
      ListAction, Config2Action>>

\* lines 191-194: the config-path option is registered with
\* required=config_arg_is_required
ActionsOf(config_arg_is_required) ==
    [i \in 1..Len(RegisteredActions) |->
        IF RegisteredActions[i].dest = ConfigAction.dest
        THEN [RegisteredActions[i] EXCEPT !.required = config_arg_is_required]
        ELSE RegisteredActions[i]]

(***************************************************************************)
(* State                                                                   *)
(***************************************************************************)

VARIABLES
    actions,                          \* self._actions
    ignore_unknown_config_file_keys,  \* self._ignore_unknown_config_file_keys
    default_config_files,             \* self._default_config_files
    auto_env_var_prefix,              \* self._auto_env_var_prefix
    source_to_settings,               \* self._source_to_settings
    disk,                             \* the files on disk: path -> lines
    argv,                             \* parse_known_args(args=...), as passed
    env_vars,                         \* parse_known_args(env_vars=...)
    config_file_contents,             \* parse_known_args(config_file_contents=...)
    pc,                               \* where the parse call stands
    args,                             \* the local token list args
    config_streams,                   \* the opened streams, in locator order
    stream_index,                     \* the stream the loop of line 292 is at
    open_streams,                     \* the names of the streams not yet closed
    namespace,                        \* the namespace parse_known_args returns
    unknown_args,                     \* the leftover list parse_known_args returns
    outcome,                          \* how parse_known_args ended
    error_msg,                        \* what self.error() was called with
    parse_args_outcome,               \* how parse_args ended
    config_settings,                  \* what ConfigFileParser.parse last returned
    config_items,                     \* the items handed to ConfigFileParser.serialize
    contents,                         \* what ConfigFileParser.serialize returned
    calls,                            \* the parse calls made on the parser so far
    constructor_kwargs,               \* the constructor's arguments, as passed
    _parsers,                         \* the module's registry: name -> instance
    registry_call,                    \* the last init/getArgumentParser call
    registration                      \* the last add_argument call

vars == <<actions, ignore_unknown_config_file_keys, default_config_files,
          auto_env_var_prefix, source_to_settings, disk, argv, env_vars,
          config_file_contents, pc, args, config_streams, stream_index,
          open_streams, namespace, unknown_args, outcome, error_msg,
          parse_args_outcome, config_settings, config_items, contents, calls,
          constructor_kwargs, _parsers, registry_call, registration>>

\* the variables of the parser and of its parse calls
parse_vars == <<actions, ignore_unknown_config_file_keys, default_config_files,
                auto_env_var_prefix, source_to_settings, disk, argv, env_vars,
                config_file_contents, pc, args, config_streams, stream_index,
                open_streams, namespace, unknown_args, outcome, error_msg,
                parse_args_outcome, config_settings, config_items, contents, calls,
                constructor_kwargs>>

\* what a step of a parse call leaves alone: the count of the calls, the
\* arguments the constructor was given, the registry and the calls made to
\* it, and the last registration
outer_vars == <<calls, constructor_kwargs, _parsers, registry_call, registration>>

parser_vars == <<actions, ignore_unknown_config_file_keys, default_config_files,
                 auto_env_var_prefix>>

input_vars == <<disk, argv, env_vars, config_file_contents>>

call_vars == <<argv, env_vars, config_file_contents>>

writer_vars == <<config_items, contents>>

(***************************************************************************)
(* ArgumentParser.parse_known_args, step by step                           *)
(***************************************************************************)

_COMMAND_LINE_SOURCE_KEY == [kind |-> "command_line", name |-> <<>>]

_ENV_VAR_SOURCE_KEY == [kind |-> "environment_variables", name |-> <<>>]

\* "%s|%s" % (_CONFIG_FILE_SOURCE_KEY, stream.name)
_CONFIG_FILE_SOURCE_KEY(name) == [kind |-> "config_file", name |-> name]

_DEFAULTS_SOURCE_KEY == [kind |-> "defaults", name |-> <<>>]

\* the action a provenance entry refers to
ActionRef(action) == IF action = None THEN None ELSE [t |-> "action", dest |-> action.dest]

\* the truth value Python gives a str-or-None
Truthy(x) == x # None /\ x.v # <<>>

\* the sub-list of l whose indices are in keep, in order
RECURSIVE Pick(_, _)
Pick(l, keep) ==
    IF keep = {} THEN <<>>
    ELSE <<l[SetMin(keep)]>> \o Pick(l, keep \ {SetMin(keep)})

\* WithAutoEnvVar without lines 249-258: no option is bound automatically
WithoutAutoEnvVar(acts, prefix) ==
    [i \in 1..Len(acts) |->
        [acts[i] EXCEPT !.is_positional_arg = (acts[i].option_strings = <<>>)]]

\* lines 239-240 and 249-258: is_positional_arg is recomputed, and with
\* auto_env_var_prefix an option that has a config key and no env_var gets one
WithAutoEnvVar(acts, prefix) ==
    [i \in 1..Len(acts) |->
        LET a == [acts[i] EXCEPT !.is_positional_arg = (acts[i].option_strings = <<>>)]
            config_file_keys == get_possible_config_keys(a)
        IN  IF prefix # None /\ config_file_keys # <<>>
               /\ ~(Truthy(a.env_var) \/ a.is_positional_arg \/ a.is_config_file_arg
                    \/ a.is_write_out_config_file_arg)
            THEN [a EXCEPT !.env_var =
                    Str(Upper(Replace(prefix.v \o StripChars(config_file_keys[1], PrefixCharSet),
                                      "-", "_")))]
            ELSE a]

\* an OrderedDict filled with the entries new, in order, on top of old: a
\* key already present keeps its place and takes the new entry
RECURSIVE AddSettings(_, _)
AddSettings(old, new) ==
    IF new = <<>> THEN old
    ELSE LET e == Head(new)
             merged == [k \in 1..Len(old) |->
                          IF old[k].key = e.key THEN e ELSE old[k]]
         IN  AddSettings(IF \E k \in 1..Len(old) : old[k].key = e.key
                         THEN merged ELSE Append(old, e), Tail(new))

\* a merge that puts the tokens of the environment variables before the
\* tokens it is given
EnvVarStepInFront(acts, args0, env) ==
    LET with_values == Pick(acts, {i \in 1..Len(acts) :
                            /\ ~acts[i].is_positional_arg
                            /\ Truthy(acts[i].env_var)
                            /\ acts[i].env_var.v \in DOMAIN env
                            /\ ~already_on_command_line(args0, acts[i].option_strings)})
        conv == [i \in 1..Len(with_values) |->
                    convert_setting_to_command_line_arg(with_values[i],
                        with_values[i].env_var.v, env[with_values[i].env_var.v])]
        failed == {i \in 1..Len(conv) : conv[i].error}
        env_var_args == Flatten([i \in 1..Len(conv) |-> conv[i].args])
    IN  IF failed # {}
        THEN [error |-> TRUE, msg |-> conv[SetMin(failed)].msg]
        ELSE [error |-> FALSE,
              args |-> env_var_args \o args0,
              sources |->
                 IF env_var_args = <<>> THEN <<>>
                 ELSE <<[source |-> _ENV_VAR_SOURCE_KEY,
                         settings |-> AddSettings(<<>>, [i \in 1..Len(with_values) |->
                            [key |-> with_values[i].env_var.v,
                             action |-> ActionRef(with_values[i]),
                             value |-> Str(env[with_values[i].env_var.v])]])]>>]

\* lines 260-276: the tokens of the environment variables of the options
\* that are not on the command line, and their provenance entry
EnvVarStep(acts, args0, env) ==
    LET with_values == Pick(acts, {i \in 1..Len(acts) :
                            /\ ~acts[i].is_positional_arg
                            /\ Truthy(acts[i].env_var)
                            /\ acts[i].env_var.v \in DOMAIN env
                            /\ ~already_on_command_line(args0, acts[i].option_strings)})
        conv == [i \in 1..Len(with_values) |->
                    convert_setting_to_command_line_arg(with_values[i],
                        with_values[i].env_var.v, env[with_values[i].env_var.v])]
        failed == {i \in 1..Len(conv) : conv[i].error}
        env_var_args == Flatten([i \in 1..Len(conv) |-> conv[i].args])
    IN  IF failed # {}
        THEN [error |-> TRUE, msg |-> conv[SetMin(failed)].msg]
        ELSE [error |-> FALSE,
              args |-> args0 \o env_var_args,
              sources |->
                 IF env_var_args = <<>> THEN <<>>
                 ELSE <<[source |-> _ENV_VAR_SOURCE_KEY,
                         settings |-> AddSettings(<<>>, [i \in 1..Len(with_values) |->
                            [key |-> with_values[i].env_var.v,
                             action |-> ActionRef(with_values[i]),
                             value |-> Str(env[with_values[i].env_var.v])]])]>>]

\* lines 279-281: known_config_keys[key], the last action that has the key
KnownConfigAction(acts, key) ==
    LET owners == {i \in 1..Len(acts) : InList(get_possible_config_keys(acts[i]), key)}
    IN  IF owners = {} THEN None ELSE acts[SetMax(owners)]

\* stream.name of the StringIO made from config_file_contents
MethodArg == <<"m", "e", "t", "h", "o", "d", " ", "a", "r", "g">>

\* a locator that passes over a named file that does not exist
RECURSIVE OpenUserFilesLenient(_, _, _, _)
OpenUserFilesLenient(user_actions, command_line_args, dsk, config_files) ==
    IF user_actions = <<>> THEN [error |-> FALSE, streams |-> config_files]
    ELSE LET action == Head(user_actions)
             Open(user_config_file) ==
                IF ~Truthy(user_config_file) \/ user_config_file.v \notin DOMAIN dsk
                THEN OpenUserFilesLenient(Tail(user_actions), command_line_args, dsk,
                                          config_files)
                ELSE OpenUserFilesLenient(Tail(user_actions), command_line_args, dsk,
                         Append(config_files, [name |-> user_config_file.v,
                                               lines |-> dsk[user_config_file.v]]))
         IN  Open(argparse_parse_known_args(<<[action EXCEPT !.required = FALSE]>>,
                                            command_line_args).namespace[action.dest])

\* ArgumentParser._open_config_files: the default files that exist, then,
\* for each config-path option, the file the command line names (found by a
\* parser that knows this one option and whose error() does nothing); a
\* named file that does not exist is an error.  opened is what was opened
\* before the call ended.
RECURSIVE OpenUserFiles(_, _, _, _)
OpenUserFiles(user_actions, command_line_args, dsk, config_files) ==
    IF user_actions = <<>> THEN [error |-> FALSE, streams |-> config_files]
    ELSE LET action == Head(user_actions)
             Open(user_config_file) ==
                IF ~Truthy(user_config_file)
                THEN OpenUserFiles(Tail(user_actions), command_line_args, dsk, config_files)
                ELSE IF user_config_file.v \notin DOMAIN dsk
                THEN [error |-> TRUE, streams |-> config_files,
                      msg |-> [what |-> "File not found", key |-> user_config_file.v,
                               value |-> <<>>]]
                ELSE OpenUserFiles(Tail(user_actions), command_line_args, dsk,
                         Append(config_files, [name |-> user_config_file.v,
                                               lines |-> dsk[user_config_file.v]]))
         IN  Open(argparse_parse_known_args(<<[action EXCEPT !.required = FALSE]>>,
                                            command_line_args).namespace[action.dest])

\* a locator that hands the streams over last first
open_config_files_reversed(acts, defaults, dsk, command_line_args) ==
    LET existing == Pick(defaults, {i \in 1..Len(defaults) : defaults[i] \in DOMAIN dsk})
        config_files == [i \in 1..Len(existing) |->
                            [name |-> existing[i], lines |-> dsk[existing[i]]]]
        user_config_file_arg_actions ==
            Pick(acts, {i \in 1..Len(acts) : acts[i].is_config_file_arg})
        Reversed(r) == [r EXCEPT !.streams =
                           [i \in 1..Len(r.streams) |-> r.streams[Len(r.streams) + 1 - i]]]
    IN  IF command_line_args = <<>> \/ user_config_file_arg_actions = <<>>
        THEN Reversed([error |-> FALSE, streams |-> config_files])
        ELSE Reversed(OpenUserFiles(user_config_file_arg_actions, command_line_args, dsk,
                                    config_files))

open_config_files(acts, defaults, dsk, command_line_args) ==
    LET existing == Pick(defaults, {i \in 1..Len(defaults) : defaults[i] \in DOMAIN dsk})
        config_files == [i \in 1..Len(existing) |->
                            [name |-> existing[i], lines |-> dsk[existing[i]]]]
        user_config_file_arg_actions ==
            Pick(acts, {i \in 1..Len(acts) : acts[i].is_config_file_arg})
    IN  IF command_line_args = <<>> \/ user_config_file_arg_actions = <<>>
        THEN [error |-> FALSE, streams |-> config_files]
        ELSE OpenUserFiles(user_config_file_arg_actions, command_line_args, dsk, config_files)

\* a loop over config_streams in locator order
StreamForward(streams, n) == n

\* config_streams[::-1]: position n of the loop of line 292 (1 is the first
\* iteration) is at this index of config_streams
StreamAt(streams, n) == Len(streams) - n + 1

\* lines 301-321 for one setting: whether it is discarded, else its tokens
\* (or the error) and the action it belongs to
SettingStep(acts, ignore, args0, key, value) ==
    LET action == KnownConfigAction(acts, key)
        discard_this_key ==
            IF action # None
            THEN already_on_command_line(args0, action.option_strings)
            ELSE \/ ignore
                 \/ already_on_command_line(args0,
                        IterateStr(get_command_line_key_for_unknown_config_file_setting(key)))
    IN  IF discard_this_key THEN [discard |-> TRUE]
        ELSE [discard |-> FALSE, action |-> action,
              conv |-> convert_setting_to_command_line_arg(action, key, value)]

\* lines 292-323 for one stream: the stream is parsed, then every setting
\* that is not discarded adds its tokens to config_args and its entry to the
\* provenance of the stream; args grows by config_args at the end
ConfigStreamStep(acts, ignore, args0, stream) ==
    LET Merged(settings, steps) ==
            LET kept == {i \in 1..Len(settings) : ~steps[i].discard}
                failed == {i \in kept : steps[i].conv.error}
                kept_list == Pick([i \in 1..Len(settings) |-> i], kept)
            IN  IF failed # {}
                THEN [error |-> TRUE, parsed |-> TRUE, settings |-> settings,
                      msg |-> steps[SetMin(failed)].conv.msg]
                ELSE [error |-> FALSE, parsed |-> TRUE, settings |-> settings,
                      args |-> args0 \o Flatten([j \in 1..Len(kept_list) |->
                                                   steps[kept_list[j]].conv.args]),
                      sources |->
                         IF kept = {} THEN <<>>
                         ELSE <<[source |-> _CONFIG_FILE_SOURCE_KEY(stream.name),
                                 settings |-> [j \in 1..Len(kept_list) |->
                                    [key |-> settings[kept_list[j]].key,
                                     action |-> ActionRef(steps[kept_list[j]].action),
                                     value |-> Str(settings[kept_list[j]].value)]]]>>]
        Converted(parsed) ==
            IF ~parsed.ok
            THEN [error |-> TRUE, parsed |-> FALSE,
                  msg |-> [what |-> "Unexpected line", key |-> stream.name,
                           value |-> parsed.line, line_index |-> parsed.line_index]]
            ELSE Merged(parsed.settings,
                        [i \in 1..Len(parsed.settings) |->
                            SettingStep(acts, ignore, args0, parsed.settings[i].key,
                                        parsed.settings[i].value)])
    IN  Converted(parse(stream.lines))

\* self._source_to_settings[source_key] = ... for the entries of one source
AddSources(record, sources) ==
    IF sources = <<>> THEN record
    ELSE LET s == sources[1]
         IN  IF \E k \in 1..Len(record) : record[k].source = s.source
             THEN [k \in 1..Len(record) |->
                     IF record[k].source = s.source
                     THEN [record[k] EXCEPT !.settings = AddSettings(record[k].settings, s.settings)]
                     ELSE record[k]]
             ELSE Append(record, [source |-> s.source,
                                  settings |-> AddSettings(<<>>, s.settings)])

\* str(action.default)
StrOf(value) ==
    CASE value.t = "str"  -> value.v
      [] value.t = "bool" -> IF value.v THEN <<"T", "r", "u", "e">>
                             ELSE <<"F", "a", "l", "s", "e">>

\* a defaults entry that leaves no option out for taking no value
DefaultSettingsOfAll(acts, args0) ==
    LET shown == {i \in 1..Len(acts) :
                    ~(\/ already_on_command_line(args0, acts[i].option_strings)
                      \/ acts[i].is_positional_arg
                      \/ acts[i].default = None
                      \/ acts[i].default = SUPPRESS)}
        shown_list == Pick(acts, shown)
    IN  IF shown = {} THEN <<>>
        ELSE <<[source |-> _DEFAULTS_SOURCE_KEY,
                settings |-> AddSettings(<<>>, [j \in 1..Len(shown_list) |->
                    [key |-> shown_list[j].option_strings[Len(shown_list[j].option_strings)],
                     action |-> ActionRef(shown_list[j]),
                     value |-> Str(StrOf(shown_list[j].default))]])]>>

\* lines 326-345: the defaults entry of the provenance record
DefaultSettings(acts, args0) ==
    LET shown == {i \in 1..Len(acts) :
                    ~(\/ already_on_command_line(args0, acts[i].option_strings)
                      \/ acts[i].is_positional_arg   \* no option has nargs '?' or '*'
                      \/ acts[i].default = None
                      \/ acts[i].default = SUPPRESS
                      \/ acts[i].kind \in ACTION_TYPES_THAT_DONT_NEED_A_VALUE)}
        shown_list == Pick(acts, shown)
    IN  IF shown = {} THEN <<>>
        ELSE <<[source |-> _DEFAULTS_SOURCE_KEY,
                settings |-> AddSettings(<<>>, [j \in 1..Len(shown_list) |->
                    [key |-> shown_list[j].option_strings[Len(shown_list[j].option_strings)],
                     action |-> ActionRef(shown_list[j]),
                     value |-> Str(StrOf(shown_list[j].default))]])]>>

\* getattr(parsed_namespace, action.dest, None)
NamespaceValue(ns, action) == IF action.dest \in DOMAIN ns THEN ns[action.dest] ELSE None

\* the action an (action, value) pair of the provenance record refers to
ActionOf(acts, ref) == acts[CHOOSE i \in 1..Len(acts) : acts[i].dest = ref.dest]

\* sep.join(l)
RECURSIVE Join(_, _)
Join(l, sep) ==
    IF l = <<>> THEN <<>>
    ELSE IF Len(l) = 1 THEN l[1]
    ELSE l[1] \o sep \o Join(Tail(l), sep)

\* lines 416-419: the value of an option that is on the command line, as
\* it is written: a bool as str(value).lower(), a list as "[e1, e2]"
WrittenValue(value) ==
    CASE value.t = "bool" -> Str(IF value.v THEN <<"t", "r", "u", "e">>
                                 ELSE <<"f", "a", "l", "s", "e">>)
      [] value.t = "list" -> Str(<<"[">> \o Join(value.v, <<",", " ">>) \o <<"]">>)
      [] OTHER            -> value

\* lines 409-420: the items of the options that are on the command line
RECURSIVE CommandLineItems(_, _, _, _)
CommandLineItems(acts, existing_command_line_args, ns, items) ==
    IF acts = <<>> THEN items
    ELSE LET action == Head(acts)
         IN  IF /\ get_possible_config_keys(action) # <<>>
                /\ ~action.is_positional_arg
                /\ already_on_command_line(existing_command_line_args, action.option_strings)
                /\ NamespaceValue(ns, action) # None
             THEN CommandLineItems(Tail(acts), existing_command_line_args, ns,
                      DictSet(items, get_possible_config_keys(action)[1],
                              WrittenValue(NamespaceValue(ns, action))))
             ELSE CommandLineItems(Tail(acts), existing_command_line_args, ns, items)

\* lines 422-428 and 432-438: the items of the settings of the environment
\* or of the defaults, with the values the namespace holds
RECURSIVE SettingItems(_, _, _, _)
SettingItems(acts, settings, ns, items) ==
    IF settings = <<>> THEN items
    ELSE LET action == ActionOf(acts, Head(settings).action)
         IN  IF /\ get_possible_config_keys(action) # <<>>
                /\ NamespaceValue(ns, action) # None
             THEN SettingItems(acts, Tail(settings), ns,
                      DictSet(items, get_possible_config_keys(action)[1],
                              NamespaceValue(ns, action)))
             ELSE SettingItems(acts, Tail(settings), ns, items)

\* lines 429-431: the items of the settings of a config file, as they are
RECURSIVE ConfigFileItems(_, _)
ConfigFileItems(settings, items) ==
    IF settings = <<>> THEN items
    ELSE ConfigFileItems(Tail(settings),
                         DictSet(items, Head(settings).key, Head(settings).value))

\* lines 407-438: the loop over the sources of the provenance record
RECURSIVE SourceItems(_, _, _, _)
SourceItems(acts, sources, ns, items) ==
    IF sources = <<>> THEN items
    ELSE LET source == Head(sources).source
             settings == Head(sources).settings
         IN  SourceItems(acts, Tail(sources), ns,
                CASE source = _COMMAND_LINE_SOURCE_KEY ->
                        CommandLineItems(acts, settings[1].value.v, ns, items)
                  [] source = _ENV_VAR_SOURCE_KEY -> SettingItems(acts, settings, ns, items)
                  [] source.kind = "config_file"  -> ConfigFileItems(settings, items)
                  [] source = _DEFAULTS_SOURCE_KEY -> SettingItems(acts, settings, ns, items))

\* ArgumentParser.get_items_for_config_file_output
get_items_for_config_file_output(acts, record, parsed_namespace) ==
    SourceItems(acts, record, parsed_namespace, <<>>)

\* repr() of a str that holds no backslash and not both kinds of quote
Repr(e) ==
    IF HasChar(e, "'") THEN <<"\"">> \o e \o <<"\"">> ELSE <<"'">> \o e \o <<"'">>

\* "%s" % value: the str itself, True or False, or the repr of the list
Formatted(value) ==
    CASE value.t = "str"  -> value.v
      [] value.t = "bool" -> IF value.v THEN <<"T", "r", "u", "e">>
                             ELSE <<"F", "a", "l", "s", "e">>
      [] value.t = "list" ->
            <<"[">> \o Join([i \in 1..Len(value.v) |-> Repr(value.v[i])], <<",", " ">>)
            \o <<"]">>

\* ConfigFileParser.serialize(items): the lines "key = value" of the text,
\* one per item
serialize(items) ==
    [i \in 1..Len(items) |-> items[i].key \o <<" ", "=", " ">> \o Formatted(items[i].value)]

\* a parser that finds no path to write
NoOutputFilePaths(acts, ns) == <<>>

\* lines 353-364: the paths the namespace holds for the write-out options
OutputFilePaths(acts, ns) ==
    LET chosen == Pick(acts, {i \in 1..Len(acts) :
                                /\ acts[i].is_write_out_config_file_arg
                                /\ Truthy(NamespaceValue(ns, acts[i]))})
    IN  [j \in 1..Len(chosen) |-> NamespaceValue(ns, chosen[j]).v]

\* lines 372-374: every output file holds the contents
WriteFiles(dsk, output_file_paths, lines) ==
    LET written == {output_file_paths[j] : j \in 1..Len(output_file_paths)}
    IN  [q \in DOMAIN dsk \cup written |-> IF q \in written THEN lines ELSE dsk[q]]

(***************************************************************************)
(* Actions                                                                 *)
(***************************************************************************)

\* self.error(message): the message is printed and the process exits with
\* status 2, so parse_known_args returns nothing
Fail(msg) ==
    /\ outcome' = "error"
    /\ error_msg' = msg
    /\ pc' = "pka_done"

\* a merge that goes on with the provenance record of the call before
MergeEnvVarsOnOldRecord ==
    /\ pc = "start"
    /\ UNCHANGED outer_vars
    /\ LET command_line == IF argv = <<>> THEN <<>>
                           ELSE <<[source |-> _COMMAND_LINE_SOURCE_KEY,
                                   settings |-> <<[key |-> <<>>, action |-> None,
                                                   value |-> List(argv)]>>]>>
           Merge(acts, step) ==
               /\ actions' = acts
               /\ IF step.error
                  THEN /\ Fail(step.msg)
                       /\ source_to_settings' = AddSources(source_to_settings, command_line)
                       /\ args' = argv
                  ELSE /\ args' = step.args
                       /\ source_to_settings' =
                              AddSources(AddSources(source_to_settings, command_line),
                                         step.sources)
                       /\ pc' = "open"
                       /\ UNCHANGED <<outcome, error_msg>>
       IN  Merge(WithAutoEnvVar(actions, auto_env_var_prefix),
                 EnvVarStep(WithAutoEnvVar(actions, auto_env_var_prefix), argv, env_vars))
    /\ UNCHANGED <<ignore_unknown_config_file_keys, default_config_files,
                   auto_env_var_prefix, input_vars, config_streams, stream_index,
                   open_streams, namespace, unknown_args, parse_args_outcome,
                   config_settings, writer_vars>>

\* lines 232-276: the token list starts as a copy of the command line, the
\* provenance record is started afresh, and the environment is merged in
MergeEnvVars ==
    /\ pc = "start"
    /\ UNCHANGED outer_vars
    /\ LET command_line == IF argv = <<>> THEN <<>>
                           ELSE <<[source |-> _COMMAND_LINE_SOURCE_KEY,
                                   settings |-> <<[key |-> <<>>, action |-> None,
                                                   value |-> List(argv)]>>]>>
           Merge(acts, step) ==
               /\ actions' = acts
               /\ IF step.error
                  THEN /\ Fail(step.msg)
                       /\ source_to_settings' = command_line
                       /\ args' = argv
                  ELSE /\ args' = step.args
                       /\ source_to_settings' = AddSources(command_line, step.sources)
                       /\ pc' = "open"
                       /\ UNCHANGED <<outcome, error_msg>>
       IN  Merge(WithAutoEnvVar(actions, auto_env_var_prefix),
                 EnvVarStep(WithAutoEnvVar(actions, auto_env_var_prefix), argv, env_vars))
    /\ UNCHANGED <<ignore_unknown_config_file_keys, default_config_files,
                   auto_env_var_prefix, input_vars, config_streams, stream_index,
                   open_streams, namespace, unknown_args, parse_args_outcome,
                   config_settings, writer_vars>>

\* lines 283-289: the streams to read, in locator order
OpenConfigFiles ==
    /\ pc = "open"
    /\ UNCHANGED outer_vars
    /\ LET Take(opened) ==
               /\ config_streams' = opened.streams
               /\ open_streams' = 1..Len(opened.streams)
               /\ stream_index' = 1
               /\ IF opened.error
                  THEN Fail(opened.msg)
                  ELSE /\ pc' = IF opened.streams = <<>> THEN "defaults" ELSE "config"
                       /\ UNCHANGED <<outcome, error_msg>>
       IN  Take(IF Truthy(config_file_contents)
                THEN [error |-> FALSE,
                      streams |-> <<[name |-> MethodArg, lines |-> config_file_contents.v]>>]
                ELSE open_config_files(actions, default_config_files, disk, args))
    /\ UNCHANGED <<parser_vars, input_vars, source_to_settings, args, namespace,
                   unknown_args, parse_args_outcome, config_settings, writer_vars>>

\* lines 291-323: one iteration of the loop over config_streams[::-1]
ParseConfigStream ==
    /\ pc = "config"
    /\ UNCHANGED outer_vars
    /\ LET at == StreamAt(config_streams, stream_index)
           Merge(step) ==
               /\ open_streams' = open_streams \ {at}      \* finally: stream.close()
               /\ config_settings' = IF step.parsed THEN step.settings ELSE config_settings
               /\ IF step.error
                  THEN /\ Fail(step.msg)
                       /\ UNCHANGED <<args, source_to_settings, stream_index>>
                  ELSE /\ args' = step.args
                       /\ source_to_settings' = AddSources(source_to_settings, step.sources)
                       /\ stream_index' = stream_index + 1
                       /\ pc' = IF stream_index = Len(config_streams)
                                THEN "defaults" ELSE "config"
                       /\ UNCHANGED <<outcome, error_msg>>
       IN  Merge(ConfigStreamStep(actions, ignore_unknown_config_file_keys, args,
                                  config_streams[at]))
    /\ UNCHANGED <<parser_vars, input_vars, config_streams, namespace, unknown_args,
                   parse_args_outcome, writer_vars>>

\* lines 326-345: the defaults entry of the provenance record
SaveDefaults ==
    /\ pc = "defaults"
    /\ UNCHANGED outer_vars
    /\ source_to_settings' = AddSources(source_to_settings, DefaultSettings(actions, args))
    /\ pc' = "engine"
    /\ UNCHANGED <<parser_vars, input_vars, args, config_streams, stream_index,
                   open_streams, namespace, unknown_args, outcome, error_msg,
                   parse_args_outcome, config_settings, writer_vars>>

\* lines 347-349: the token list is handed to argparse
ParseAllArgs ==
    /\ pc = "engine"
    /\ UNCHANGED outer_vars
    /\ LET Return(r) ==
               /\ error_msg' = r.msg
               /\ IF r.outcome = "ok"
                  THEN /\ namespace' = r.namespace
                       /\ unknown_args' = r.extras
                       /\ pc' = "write"
                       /\ UNCHANGED outcome
                  ELSE /\ outcome' = r.outcome
                       /\ pc' = "pka_done"
                       /\ UNCHANGED <<namespace, unknown_args>>
       IN  Return(argparse_parse_known_args(actions, args))
    /\ UNCHANGED <<parser_vars, input_vars, source_to_settings, args, config_streams,
                   stream_index, open_streams, parse_args_outcome, config_settings,
                   writer_vars>>

\* lines 351-379: if the command line names an output path through a
\* write-out option, the items are gathered, serialized and written to the
\* path, and the process exits with status 0 (every path can be opened for
\* writing); otherwise the namespace and the leftover list are returned
WriteOutConfigFile ==
    /\ pc = "write"
    /\ UNCHANGED outer_vars
    /\ LET Write(output_file_paths, items) ==
               IF output_file_paths = <<>>
               THEN /\ outcome' = "returned"
                    /\ UNCHANGED <<disk, writer_vars>>
               ELSE /\ config_items' = items
                    /\ contents' = Str(serialize(items))
                    /\ disk' = WriteFiles(disk, output_file_paths, serialize(items))
                    /\ outcome' = "exit"
       IN  Write(OutputFilePaths(actions, namespace),
                 get_items_for_config_file_output(actions, source_to_settings, namespace))
    /\ pc' = "pka_done"
    /\ UNCHANGED <<parser_vars, call_vars, source_to_settings, args, config_streams,
                   stream_index, open_streams, namespace, unknown_args, error_msg,
                   parse_args_outcome, config_settings>>

\* ArgumentParser.parse_args, lines 213-219: leftover tokens are an error
ParseArgs ==
    /\ pc = "pka_done"
    /\ UNCHANGED outer_vars
    /\ IF outcome = "returned" /\ unknown_args # <<>>
       THEN /\ parse_args_outcome' = "error"
            /\ error_msg' = [what |-> "unrecognized arguments", key |-> unknown_args[1],
                             value |-> <<>>]
       ELSE /\ parse_args_outcome' = outcome
            /\ UNCHANGED error_msg
    /\ pc' = "done"
    /\ UNCHANGED <<parser_vars, input_vars, source_to_settings, args, config_streams,
                   stream_index, open_streams, namespace, unknown_args, outcome,
                   config_settings, writer_vars>>

Next ==
    \/ MergeEnvVars
    \/ OpenConfigFiles
    \/ ParseConfigStream
    \/ SaveDefaults
    \/ ParseAllArgs
    \/ WriteOutConfigFile
    \/ ParseArgs

(***************************************************************************)
(* Initial states: a parser with its options registered, about to run one  *)
(* parse call on the inputs in                                             *)
(***************************************************************************)

InitOf(acts, in) ==
    /\ actions = acts
    /\ ignore_unknown_config_file_keys =
          (in.ignore_unknown_config_file_keys \/ in.allow_unknown_config_file_keys)
    /\ default_config_files = in.default_config_files
    /\ auto_env_var_prefix = in.auto_env_var_prefix
    /\ source_to_settings = <<>>
    /\ disk = in.disk
    /\ argv = in.argv
    /\ env_vars = in.env_vars
    /\ config_file_contents = in.config_file_contents
    /\ pc = "start"
    /\ args = <<>>
    /\ config_streams = <<>>
    /\ stream_index = 1
    /\ open_streams = {}
    /\ namespace = None
    /\ unknown_args = <<>>
    /\ outcome = "running"
    /\ error_msg = NoMsg
    /\ parse_args_outcome = "running"
    /\ config_settings = <<>>
    /\ config_items = <<>>
    /\ contents = None
    /\ calls = 1
    /\ constructor_kwargs =
          [ignore_unknown_config_file_keys |-> in.ignore_unknown_config_file_keys,
           allow_unknown_config_file_keys |-> in.allow_unknown_config_file_keys,
           auto_env_var_prefix |-> in.auto_env_var_prefix,
           config_arg_is_required |-> in.config_arg_is_required,
           default_config_files |-> in.default_config_files]
    /\ _parsers = <<>>
    /\ registry_call = None
    /\ registration = None

\* the parser as __init__ leaves it
InitWith(in) == InitOf(ActionsOf(in.config_arg_is_required), in)

(***************************************************************************)
(* The inputs of the parse call                                            *)
(***************************************************************************)

\* the most lines a config file on disk holds
MaxFileLines == 1

\* the most lines config_file_contents holds
MaxContentLines == 2

\* the most elements a bracketed list value holds
MaxElems == 3

\* the sequences over S of length lo..hi
SeqsOf(S, lo, hi) == UNION {[1..n -> S] : n \in lo..hi}

dd == <<"-", "-">>

f0 == <<"f", "0">>

f1 == <<"f", "1">>

f2 == <<"f", "2">>

v_cl == <<"c", "l">>

v_env == <<"e", "n", "v">>

v_cfg == <<"c", "f", "g">>

s_zz == <<"z", "z">>

s_flag == <<"f", "l", "a", "g">>

s_nflag == <<"n", "f", "l", "a", "g">>

s_list == <<"l", "i", "s", "t">>

n_ARG == <<"A", "R", "G">>

n_FLAG == <<"F", "L", "A", "G">>

n_NFLAG == <<"N", "F", "L", "A", "G">>

n_LIST == <<"L", "I", "S", "T">>

\* the ways the command line can give --arg
ArgOnCommandLine ==
    {<<>>, <<dd \o s_arg, v_cl>>, <<<<"-", "a">>, v_cl>>, <<dd \o s_arg \o <<"=">> \o v_cl>>}

\* the ways the command line can name a config file
ConfigOnCommandLine == {<<>>, <<<<"-", "c">>, f2>>}

\* "key = value"
Line(key, value) == key \o <<" ", "=", " ">> \o value

\* lines that set --arg through one of its config keys
ArgLines == {Line(s_arg, <<"c", "0">>), dd \o s_arg \o <<":", " ", "c", "1">>}

\* what a path may hold on disk: nothing (no such file) or a few lines
NoFile == [exists |-> FALSE]

FileOf(lines) == [exists |-> TRUE, lines |-> lines]

ArgFiles == {NoFile} \cup {FileOf(l) : l \in SeqsOf(ArgLines, 0, MaxFileLines)}

\* the disk that holds exactly the files given for f0, f1, f2
DiskOf(c0, c1, c2) ==
    LET given == <<c0, c1, c2>>
        paths == <<f0, f1, f2>>
        present == {i \in 1..3 : given[i].exists}
    IN  [q \in {paths[i] : i \in present} |->
            given[CHOOSE i \in present : paths[i] = q].lines]

EmptyEnv == <<>>

\* the arguments of the constructor and of the parse call; the constructor
\* arguments not named here keep their defaults
Input(ignore, defaults, dsk, cl, env, text) ==
    [ignore_unknown_config_file_keys |-> ignore, allow_unknown_config_file_keys |-> FALSE,
     auto_env_var_prefix |-> None, config_arg_is_required |-> FALSE,
     default_config_files |-> defaults,
     disk |-> dsk, argv |-> cl, env_vars |-> env, config_file_contents |-> text]

\* one scalar option and its four sources: the command line, the
\* environment, up to two default config files and one named with -c
\* (a path the parser is not pointed at holds no file)
SourceInputs ==
    {Input(FALSE, defaults, DiskOf(c0, c1, c2), conf \o cl, env, None) :
        defaults \in {<<>>, <<f0>>, <<f0, f1>>},
        c0 \in ArgFiles, c1 \in ArgFiles, c2 \in ArgFiles,
        conf \in ConfigOnCommandLine, cl \in ArgOnCommandLine,
        env \in {EmptyEnv, n_ARG :> v_env}}

Referenced(in) ==
    /\ f0 \in DOMAIN in.disk => InList(in.default_config_files, f0)
    /\ f1 \in DOMAIN in.disk => InList(in.default_config_files, f1)
    /\ f2 \in DOMAIN in.disk => InList(in.argv, f2)

\* config keys that no option declares, and one that --arg declares
UnknownKeys ==
    {s_zz, dd \o s_zz, <<"-">> \o s_arg, s_arg \o <<"-">>, <<"a", "r">>}

KeyLines == {Line(k, v_cfg) : k \in UnknownKeys} \cup {s_zz, Line(s_arg, <<"c", "0">>)}

\* config text with keys no option declares, read with and without
\* ignore_unknown_config_file_keys
UnknownKeyInputs ==
    {Input(ignore, <<>>, <<>>, cl, env, Str(text)) :
        ignore \in BOOLEAN,
        cl \in {<<>>, <<dd \o s_arg, v_cl>>, <<dd \o s_zz, v_cl>>, <<dd \o s_arg, <<"z">>>>},
        env \in {EmptyEnv, n_ARG :> v_env},
        text \in SeqsOf(KeyLines, 1, MaxContentLines)}

\* the value "[e1, e2, ...]"
RECURSIVE Bracketed(_)
Bracketed(elems) ==
    IF Len(elems) = 1 THEN <<"[">> \o elems[1] \o <<"]">>
    ELSE LET rest == Bracketed(Tail(elems))
         IN  <<"[">> \o elems[1] \o <<",", " ">> \o Tail(rest)

Elems == {<<"a">>, <<"b">>, <<"-", "f">>}

ScalarValues ==
    {<<"t", "r", "u", "e">>, <<"T", "R", "U", "E">>, <<"1">>, <<"y", "e", "s">>,
     <<"o", "n">>, <<"f", "a", "l", "s", "e">>, <<"0">>, <<"n", "o">>,
     <<"o", "f", "f">>, <<"b", "l", "a">>, <<"-", "f">>, <<>>, <<"[", "]">>}

SettingValues == ScalarValues \cup {Bracketed(e) : e \in SeqsOf(Elems, 1, MaxElems)}

\* one option of each kind set to one value, by its environment variable or
\* by its config key
ValueInputs ==
    {Input(FALSE, <<>>, <<>>, <<>>, name :> value, None) :
        name \in {n_ARG, n_FLAG, n_NFLAG, n_LIST}, value \in SettingValues}
    \cup
    {Input(FALSE, <<>>, <<>>, <<>>, EmptyEnv, Str(<<Line(key, value)>>)) :
        key \in {s_arg, s_flag, s_nflag, s_list}, value \in SettingValues}

\* lines that give the same key different values
RepeatLines ==
    {Line(s_list, <<"a">>), Line(s_list, <<"b">>),
     Line(s_arg, <<"c", "0">>), Line(s_arg, <<"c", "2">>)}

\* config text in which keys repeat
RepeatedKeyInputs ==
    {Input(FALSE, <<>>, <<>>, <<>>, EmptyEnv, Str(text)) :
        text \in SeqsOf(RepeatLines, 2, MaxContentLines + 1)}

\* the pieces config lines are made of: keys no option declares,
\* separators, values, trailing comments, padding
g_k == <<"k">>

g_j == <<"j">>

GrammarKeys == {g_k, g_j}

Separators ==
    {<<"=">>, <<" ", "=", " ">>, <<":">>, <<" ", ":", " ">>, <<" ">>, <<"\t">>}

PlainValues == {<<"v">>, <<"a", " ", "b">>, <<"[", "a", ",", " ", "b", "]">>}

Comments == {<<>>, <<" ", "#", " ", "c">>, <<" ", ";", "c">>}

Pads == {<<>>, <<" ">>}

\* lines that are ignored
IgnoredLines ==
    {<<>>, <<" ", " ">>, <<"#", " ", "c">>, <<" ", ";", "c">>, <<" ", "[", "s", "]">>,
     <<"-", "-", "-">>, <<"-", "-", "-", " ", "x">>}

\* lines that hold a key alone
KeyAloneLines == {pad \o g_k \o comment \o pad : pad \in Pads, comment \in Comments}

\* lines key <sep> value, with and without a trailing comment
KeyValueLines ==
    {pad \o g_k \o sep \o value \o comment \o pad :
        pad \in Pads, sep \in Separators, value \in PlainValues, comment \in Comments}

\* the separators that hold a delimiter, and lines that end after it
Delimiters ==
    {<<"=">>, <<" ", "=">>, <<"=", " ">>, <<":">>, <<" ", ":">>, <<" ", ":", " ">>}

BlankValueLines == {key \o sep : key \in {g_k, s_arg}, sep \in Delimiters}

\* values with quotes, balanced and not
QuotedValues ==
    {<<"\"", "v", "\"">>, <<"'", "v", "'">>, <<"\"", "\"", "v", "\"", "\"">>,
     <<"\"", "v">>, <<"v", "'">>}

QuotedValueLines ==
    {g_k \o sep \o value : sep \in {<<"=">>, <<" ", "=", " ">>}, value \in QuotedValues}

\* values that hold a comment marker with no white space before it
MarkerValues == {<<"v", "#", "c">>, <<"v", ";", "c">>}

MarkerValueLines ==
    {g_k \o sep \o value : sep \in {<<"=">>, <<":">>, <<" ", "=", " ">>},
                           value \in MarkerValues}

\* lines of no form
MalformedLines == {<<"k", "#", "c">>, <<"=", "v">>}

GrammarLines ==
    IgnoredLines \cup KeyAloneLines \cup KeyValueLines \cup BlankValueLines
    \cup QuotedValueLines \cup MarkerValueLines \cup MalformedLines

\* lines for config text of several lines
MixedLines ==
    {Line(g_k, <<"v">>), g_j \o <<":", "w">>, <<"#", " ", "c">>, <<"k", "#", "c">>, g_j}

\* config text that exercises the line grammar: one line of any form, or
\* several lines of a few forms
GrammarInputs ==
    {Input(FALSE, <<>>, <<>>, <<>>, EmptyEnv, Str(text)) :
        text \in {<<l>> : l \in GrammarLines} \cup SeqsOf(MixedLines, 2, MaxContentLines)}

\* a default config file that holds lines of a few forms
GrammarFileInputs ==
    {Input(FALSE, <<f0>>, DiskOf(FileOf(lines), NoFile, NoFile), <<>>, EmptyEnv, None) :
        lines \in SeqsOf(MixedLines, 1, MaxFileLines + 1)}

\* the ways the command line can name files through the two config-path
\* options
TwoConfigsOnCommandLine ==
    {<<<<"-", "C">>, f1>>, <<<<"-", "c">>, f2, <<"-", "C">>, f1>>,
     <<<<"-", "C">>, f1, <<"-", "c">>, f2>>}

OneLineFiles == {NoFile, FileOf(<<Line(s_arg, <<"c", "0">>)>>)}

\* a default file and files named through both config-path options, each
\* on disk or not
TwoConfigInputs ==
    {Input(FALSE, <<f0>>, DiskOf(c0, c1, c2), cl, EmptyEnv, None) :
        c0 \in OneLineFiles, c1 \in OneLineFiles, c2 \in OneLineFiles,
        cl \in TwoConfigsOnCommandLine}

\* the path the write-out option names
s_out == <<"o", "u", "t">>

\* what the command line, the environment and the config text give when a
\* config file is written out
WriteCommandLines ==
    {<<>>, <<dd \o s_arg, v_cl>>, <<<<"-", "x">>>>,
     <<<<"-", "l">>, <<"a">>, <<"-", "l">>, <<"b">>>>,
     <<dd \o s_arg, v_cl, dd \o s_flag>>}

WriteEnvs ==
    {EmptyEnv, n_ARG :> v_env, n_FLAG :> <<"t", "r", "u", "e">>,
     n_LIST :> Bracketed(<<<<"a">>, <<"b">>>>),
     (n_LIST :> Bracketed(<<<<"a">>, <<"b">>>>)) @@ (n_ARG :> v_env)}

WriteTexts ==
    {None, Str(<<Line(s_arg, <<"c", "0">>)>>), Str(<<s_flag>>),
     Str(<<Line(s_list, Bracketed(<<<<"a">>, <<"b">>>>))>>)}

\* parse calls whose command line asks for a config file to be written
WriteInputs ==
    {Input(FALSE, <<>>, <<>>, <<<<"-", "w">>, s_out>> \o cl, env, text) :
        cl \in WriteCommandLines, env \in WriteEnvs, text \in WriteTexts}

\* parse calls that name the path to write through the long flag
LongWriteInputs ==
    {Input(FALSE, <<>>, <<>>, <<<<"-", "-">> \o s_write_config, s_out>> \o cl,
           EmptyEnv, None) : cl \in WriteCommandLines}

\* the ways the command line can name the path to write
WriteOnCommandLine ==
    {<<>>, <<<<"-", "w">>, s_out>>, <<<<"-", "-">> \o s_write_config, s_out>>}

\* parse calls on a parser built with and without config_arg_is_required,
\* with and without the config path, the path to write and an argument no
\* option declares on the command line
RequiredConfigInputs ==
    {[Input(FALSE, <<>>, f2 :> <<Line(s_arg, <<"c", "0">>)>>, w \o conf \o cl, EmptyEnv, None)
        EXCEPT !.config_arg_is_required = required] :
        required \in BOOLEAN, w \in WriteOnCommandLine, conf \in ConfigOnCommandLine,
        cl \in {<<>>, <<dd \o s_zz>>, <<dd \o s_arg, v_cl>>}}

\* parse calls on a parser built with and without the deprecated
\* allow_unknown_config_file_keys, on a config text that sets a key no option
\* declares
AllowUnknownInputs ==
    {[Input(FALSE, <<>>, <<>>, cl, EmptyEnv, Str(<<Line(s_zz, v_cfg)>>))
        EXCEPT !.allow_unknown_config_file_keys = allow] :
        allow \in BOOLEAN, cl \in {<<>>, <<dd \o s_arg, v_cl>>}}

Inputs ==
    {in \in SourceInputs : Referenced(in)} \cup UnknownKeyInputs \cup ValueInputs
    \cup RepeatedKeyInputs \cup GrammarInputs \cup GrammarFileInputs
    \cup TwoConfigInputs \cup WriteInputs \cup LongWriteInputs
    \cup RequiredConfigInputs \cup AllowUnknownInputs

Init == \E in \in Inputs : InitWith(in)

Spec == Init /\ [][Next]_vars

(***************************************************************************)
(* The vocabulary of the properties                                        *)
(***************************************************************************)

\* parse_known_args has just ended, and has just returned
Ended == pc = "pka_done"

Returned == Ended /\ outcome = "returned"

\* the settings the parser reads from a stream (none if the stream is
\* rejected)
SettingsOf(stream) ==
    LET Read(parsed) == IF parsed.ok THEN parsed.settings ELSE <<>>
    IN  Read(parse(stream.lines))

\* the settings of the streams that were opened, stream by stream in
\* locator order; below, read stands for this list
StreamSettings == [n \in 1..Len(config_streams) |-> SettingsOf(config_streams[n])]

\* the (key, value) settings of all the streams
AllSettings(read) == UNION {{read[n][i] : i \in 1..Len(read[n])} : n \in 1..Len(read)}

\* the values stream n gives to a key among keys
ValuesIn(read, n, keys) ==
    {read[n][i].value : i \in {j \in 1..Len(read[n]) : read[n][j].key \in keys}}

\* the long flags of an option, and its config keys: a long flag with or
\* without its two-character prefix
LongFlags(action) ==
    {action.option_strings[i] : i \in {j \in 1..Len(action.option_strings) :
        StartsWith(action.option_strings[j], dd)}}

ConfigKeys(action) == LongFlags(action) \cup {From(o, 3) : o \in LongFlags(action)}

DeclaredConfigKeys == UNION {ConfigKeys(RegisteredActions[i]) : i \in 1..Len(RegisteredActions)}

\* the config text that was read sets only keys that some option declares
OnlyDeclaredKeys(read) == \A st \in AllSettings(read) : st.key \in DeclaredConfigKeys

\* the flags of an option
Flags(action) == {action.option_strings[i] : i \in 1..Len(action.option_strings)}

\* a command-line token that spells the option in some way: one of its
\* flags, alone or with a value glued to it, or an abbreviation
Spells(token, action) ==
    \E o \in Flags(action) :
        \/ StartsWith(token, o)
        \/ Len(token) > 2 /\ StartsWith(o, token)
        \/ HasChar(token, "=") /\ StartsWith(o, SplitAtEquals(token).before)
           /\ Len(SplitAtEquals(token).before) > 2

\* the option is on the command line only as a flag token followed by a
\* separate value token
GivenSeparately(action) ==
    /\ \E i \in 1..Len(argv) - 1 : argv[i] \in Flags(action)
    /\ \A i \in 1..Len(argv) : Spells(argv[i], action) =>
          /\ argv[i] \in Flags(action)
          /\ i < Len(argv)
          /\ argv[i + 1] # <<>> /\ argv[i + 1][1] \notin PrefixCharSet

\* the option is not on the command line
NotGiven(action) == \A i \in 1..Len(argv) : ~Spells(argv[i], action)

\* the value token after the last flag of the option on the command line
CommandLineValue(action) == argv[SetMax({i \in 1..Len(argv) : argv[i] \in Flags(action)}) + 1]

EnvSet(action) == action.env_var # None /\ action.env_var.v \in DOMAIN env_vars

EnvValue(action) == env_vars[action.env_var.v]

\* the values the streams give to the option's keys
ConfigValues(read, action) ==
    {st.value : st \in {x \in AllSettings(read) : x.key \in ConfigKeys(action)}}

(***************************************************************************)
(* Precedence of the sources                                               *)
(***************************************************************************)

PrecedenceLaw(read) ==
    (OnlyDeclaredKeys(read) /\ (GivenSeparately(ArgAction) \/ NotGiven(ArgAction)))
    => IF GivenSeparately(ArgAction)
       THEN namespace.arg = Str(CommandLineValue(ArgAction))
       ELSE IF EnvSet(ArgAction)
       THEN namespace.arg = Str(EnvValue(ArgAction))
       ELSE IF ConfigValues(read, ArgAction) # {}
       THEN namespace.arg \in {Str(v) : v \in ConfigValues(read, ArgAction)}
       ELSE namespace.arg = ArgAction.default

\* C1: the precedence law for the scalar option --arg (long flag, bound
\* environment variable ARG, config keys arg and --arg), over every
\* combination of its four sources, the config text setting declared keys
\* only: when parse_known_args returns, the bound value is the command-line
\* value if the option is given as a flag token followed by a separate value
\* token; otherwise the environment value if ARG is set; otherwise a value a
\* config file gives its key; otherwise the declared default.
C1_PrecedenceLaw == Returned => PrecedenceLaw(StreamSettings)

AllSourcesPresent(read) ==
    /\ OnlyDeclaredKeys(read)
    /\ GivenSeparately(ArgAction)
    /\ EnvSet(ArgAction)
    /\ ConfigValues(read, ArgAction) # {}
    /\ Str(v_cl) \notin {Str(EnvValue(ArgAction)), ArgAction.default}
    /\ v_cl \notin ConfigValues(read, ArgAction)

\* C1: the four sources are all present and the command line has won
C1_Witness == Returned /\ namespace.arg = Str(v_cl) /\ AllSourcesPresent(StreamSettings)

\* the option is on the command line as one token flag=value
GivenWithEquals(action) ==
    \E i \in 1..Len(argv) :
        /\ HasChar(argv[i], "=")
        /\ SplitAtEquals(argv[i]).before \in LongFlags(action)

EqualsValue(action) ==
    SplitAtEquals(argv[SetMax({i \in 1..Len(argv) :
        HasChar(argv[i], "=") /\ SplitAtEquals(argv[i]).before \in LongFlags(action)})]).after

EqualsFormWins(read) ==
    (OnlyDeclaredKeys(read) /\ ConfigValues(read, ArgAction) # {})
    => namespace.arg = Str(EqualsValue(ArgAction))

\* C2: with --arg=value on the command line, ARG set in the environment and
\* the key set in the config file, the value parse_known_args returns for
\* the option is the command-line value.
C2_EqualsFormWins ==
    (Returned /\ GivenWithEquals(ArgAction) /\ EnvSet(ArgAction))
    => EqualsFormWins(StreamSettings)

\* the streams that set a key of the option, as indices in locator order
SettingStreams(read, action) ==
    {n \in 1..Len(read) : ValuesIn(read, n, ConfigKeys(action)) # {}}

\* only config files can decide the option: parse_known_args has returned
\* and the option is neither on the command line nor in the environment
FilesDecide(action) == Returned /\ NotGiven(action) /\ ~EnvSet(action)

\* the value bound to --arg is one that stream n gives it
BoundFrom(read, n) ==
    namespace.arg \in {Str(v) : v \in ValuesIn(read, n, ConfigKeys(ArgAction))}

EarliestFileWins(read) ==
    (OnlyDeclaredKeys(read) /\ Cardinality(SettingStreams(read, ArgAction)) >= 2)
    => BoundFrom(read, SetMin(SettingStreams(read, ArgAction)))

\* C3, as stated: when two discovered config files both set --arg (the
\* files setting declared keys only) and neither the command line nor the
\* environment supplies it, the bound value is the one of the file that
\* comes first in locator order.
C3_EarliestFileWins == FilesDecide(ArgAction) => EarliestFileWins(StreamSettings)

LatestFileWins(read) ==
    (OnlyDeclaredKeys(read) /\ Cardinality(SettingStreams(read, ArgAction)) >= 2)
    => BoundFrom(read, SetMax(SettingStreams(read, ArgAction)))

\* C3, amended: under the same conditions the bound value is the one of the
\* file that comes last in locator order.
C3_LatestFileWins == FilesDecide(ArgAction) => LatestFileWins(StreamSettings)

LatestNotEarliest(read) ==
    /\ OnlyDeclaredKeys(read)
    /\ Cardinality(SettingStreams(read, ArgAction)) >= 2
    /\ BoundFrom(read, SetMax(SettingStreams(read, ArgAction)))
    /\ ~BoundFrom(read, SetMin(SettingStreams(read, ArgAction)))

\* C3: two files set --arg to different values and the later one is bound
C3_Witness == FilesDecide(ArgAction) /\ LatestNotEarliest(StreamSettings)

\* the paths the command line names through the config-path option
UserPaths ==
    {argv[i + 1] : i \in {j \in 1..Len(argv) - 1 : argv[j] \in Flags(ConfigAction)}}

\* the streams of the user-specified files and of the default files
UserStreams ==
    {n \in 1..Len(config_streams) :
        /\ config_streams[n].name \in UserPaths
        /\ ~InList(default_config_files, config_streams[n].name)}

DefaultStreams ==
    {n \in 1..Len(config_streams) : InList(default_config_files, config_streams[n].name)}

UserFileOverridesDefaults(read) ==
    OnlyDeclaredKeys(read) =>
       /\ \A u \in UserStreams \cap SettingStreams(read, ArgAction) :
             DefaultStreams \cap SettingStreams(read, ArgAction) # {} => BoundFrom(read, u)
       /\ (UserStreams \cap SettingStreams(read, ArgAction) = {}
           /\ Cardinality(DefaultStreams \cap SettingStreams(read, ArgAction)) >= 2)
          => BoundFrom(read, SetMax(DefaultStreams \cap SettingStreams(read, ArgAction)))

\* C4: when only config files can decide --arg (the files setting declared
\* keys only), a user-specified file that sets it overrides the default
\* files that set it, and among the default files the one listed last of
\* those that set it overrides the ones listed before it.
C4_UserFileOverridesDefaults ==
    FilesDecide(ArgAction) => UserFileOverridesDefaults(StreamSettings)

UserNotDefault(read) ==
    /\ OnlyDeclaredKeys(read)
    /\ \E u \in UserStreams \cap SettingStreams(read, ArgAction) :
       \E d \in DefaultStreams \cap SettingStreams(read, ArgAction) :
          BoundFrom(read, u) /\ ~BoundFrom(read, d)

\* C4: a default file and the user-specified file set --arg to different
\* values and the one of the user-specified file is bound
C4_Witness == FilesDecide(ArgAction) /\ UserNotDefault(StreamSettings)

(***************************************************************************)
(* Config keys that no option declares                                     *)
(***************************************************************************)

AllFlags == UNION {Flags(RegisteredActions[i]) : i \in 1..Len(RegisteredActions)}

\* how often token occurs in the list
Count(list, token) == Cardinality({i \in 1..Len(list) : list[i] = token})

\* the long-flag spelling --k of a config key k
LongFlagOf(key) == IF StartsWith(key, dd) THEN key ELSE dd \o key

\* a key that matches no declared option however it is read: a plain word
\* whose long-flag spelling is no flag and abbreviates none
MatchesNoOption(key) ==
    /\ key # <<>>
    /\ \A i \in 1..Len(key) : key[i] \notin PrefixCharSet
    /\ \A o \in AllFlags : ~StartsWith(o, dd \o key)

\* every token of the command line is a flag of a declared option or the
\* value that follows the flag of a value-taking one
CommandLineDeclared ==
    \A i \in 1..Len(argv) :
        \/ argv[i] \in AllFlags
        \/ /\ i > 1
           /\ argv[i - 1] \in Flags(ArgAction) \cup Flags(ListAction) \cup Flags(ConfigAction)
           /\ argv[i] # <<>> /\ argv[i][1] \notin PrefixCharSet

UnknownKeyBoundary(read) ==
    \A st \in {x \in AllSettings(read) : MatchesNoOption(x.key)} :
        IF ignore_unknown_config_file_keys
        THEN /\ ~InList(unknown_args, LongFlagOf(st.key))
             /\ DOMAIN namespace = DOMAIN DefaultNamespace(RegisteredActions)
             /\ parse_args_outcome = "returned"
        ELSE /\ InList(unknown_args, LongFlagOf(st.key))
             /\ parse_args_outcome = "error"
             /\ error_msg.what = "unrecognized arguments"

\* C5: the unknown-key boundary, for a config key that matches no declared
\* option and a command line of declared options: when parse_known_args
\* returns, with ignore_unknown_config_file_keys the flag --key is not in the
\* leftover list, nothing but the declared options is bound, and parse_args
\* succeeds; without it --key is in the leftover list and parse_args fails
\* with "unrecognized arguments".
C5_UnknownKeyBoundary ==
    (pc = "done" /\ outcome = "returned" /\ CommandLineDeclared)
    => UnknownKeyBoundary(StreamSettings)

NoSecondOccurrence(read) ==
    \A st \in {x \in AllSettings(read) :
                  x.key \notin DeclaredConfigKeys /\ InList(argv, LongFlagOf(x.key))} :
        /\ Count(args, LongFlagOf(st.key)) = Count(argv, LongFlagOf(st.key))
        /\ Count(unknown_args, LongFlagOf(st.key)) = Count(argv, LongFlagOf(st.key))

\* C6: with unknown keys not ignored, for an undeclared config key whose
\* long-flag spelling is already a token of the command line nothing is
\* synthesized: the token list and the leftover list hold the spelling as
\* often as the command line does.
C6_NoSecondOccurrence ==
    (Returned /\ ~ignore_unknown_config_file_keys) => NoSecondOccurrence(StreamSettings)

\* what parse_known_args returns for the same command line and environment
\* when there is no config text
WithoutConfig ==
    LET Parsed(step) == argparse_parse_known_args(actions, step.args)
    IN  Parsed(EnvVarStep(actions, argv, env_vars))

UndeclaredOnly(read) ==
    /\ AllSettings(read) # {}
    /\ \A st \in AllSettings(read) : st.key \notin DeclaredConfigKeys

\* C7: config text whose keys are all undeclared binds and changes no
\* declared option: what parse_known_args returns for the options is what it
\* returns without the config text.
C7_UnknownKeyNeverBinds ==
    (Returned /\ UndeclaredOnly(StreamSettings)) => namespace = WithoutConfig.namespace

(***************************************************************************)
(* Values                                                                  *)
(***************************************************************************)

OnTokens == {<<"t", "r", "u", "e">>, <<"1">>, <<"y", "e", "s">>, <<"o", "n">>}

OffTokens == {<<"f", "a", "l", "s", "e">>, <<"0">>, <<"n", "o">>, <<"o", "f", "f">>}

IsBracketed(value) == StartsWith(value, <<"[">>) /\ EndsWith(value, <<"]">>)

\* the options that have an environment variable and config keys
ValueOptions == {ArgAction, FlagAction, NFlagAction, ListAction}

\* the one setting there is, if there is exactly one and the command line
\* is empty: an environment variable of an option with no config text, or a
\* config key of an option with an empty environment
OnlySetting(read) ==
    IF argv # <<>> THEN {}
    ELSE IF config_streams = <<>>
    THEN {[action |-> a, value |-> env_vars[a.env_var.v]] :
            a \in {x \in ValueOptions : DOMAIN env_vars = {x.env_var.v}}}
    ELSE IF DOMAIN env_vars = {} /\ Cardinality(AllSettings(read)) = 1
    THEN UNION {{[action |-> a, value |-> st.value] :
                   st \in {x \in AllSettings(read) : x.key \in ConfigKeys(a)}} :
                a \in ValueOptions}
    ELSE {}

BooleanCoercion(read) ==
    \A s \in {x \in OnlySetting(read) : x.action \in {FlagAction, NFlagAction}} :
        IF Lower(s.value) \in OnTokens
        THEN Returned /\ namespace[s.action.dest] = Bool(s.action.kind = "store_true")
        ELSE IF Lower(s.value) \in OffTokens
        THEN Returned /\ namespace[s.action.dest] = s.action.default
        ELSE outcome = "error"

\* C8: a store_true or store_false option set to one value by its
\* environment variable or its config key: true, 1, yes, on (in any case)
\* switch it on; false, 0, no, off leave it off; any other value is an
\* error.
C8_BooleanCoercion == Ended => BooleanCoercion(StreamSettings)

\* the value conflicts with the arity of the option
Conflict(action, value) ==
    \/ IsBracketed(value) /\ action.kind # "append"
    \/ Lower(value) = <<"t", "r", "u", "e">> /\ action.kind \in {"store", "append"}
    \/ /\ action.kind \in ACTION_TYPES_THAT_DONT_NEED_A_VALUE
       /\ ~IsBracketed(value)
       /\ Lower(value) \notin OnTokens \cup OffTokens

ConflictMessages ==
    {"can't be set to a list", "set to 'True' rather than a value",
     "is a flag but is being set to"}

\* the settings that reached the conversion: the environment variables of
\* the options that are not on the command line, and the keys of a single
\* config stream that was read, of the options that are neither on the
\* command line nor in the environment
Converted(read) ==
    {[action |-> a, key |-> a.env_var.v, value |-> env_vars[a.env_var.v]] :
        a \in {x \in ValueOptions : NotGiven(x) /\ EnvSet(x)}}
    \cup
    UNION {{[action |-> a, key |-> st.key, value |-> st.value] :
              st \in {x \in AllSettings(read) : x.key \in ConfigKeys(a)}} :
           a \in {x \in ValueOptions :
                     /\ NotGiven(x) /\ ~EnvSet(x)
                     /\ Len(config_streams) = 1 /\ open_streams = {}}}

ConflictsAreFatal(read) ==
    \A c \in {x \in Converted(read) : Conflict(x.action, x.value)} :
        /\ outcome = "error"
        /\ error_msg.what \in ConflictMessages
        /\ \E d \in Converted(read) : Conflict(d.action, d.value) /\ error_msg.key = d.key
        /\ \A o \in Flags(c.action) : ~InList(args, o)

TrueForValueOption(read) ==
    \E c \in Converted(read) :
        /\ c.action = ArgAction
        /\ Lower(c.value) = <<"t", "r", "u", "e">>
        /\ error_msg.key = c.key

Elements(value) ==
    LET parts == Split(SubSeq(value, 2, Len(value) - 1), ",")
    IN  [i \in 1..Len(parts) |-> Strip(parts[i])]

ListSynthesis(read) ==
    \A s \in {x \in OnlySetting(read) :
                 /\ x.action = ListAction
                 /\ IsBracketed(x.value)
                 /\ Strip(SubSeq(x.value, 2, Len(x.value) - 1)) # <<>>} :
        /\ Len(args) = 2 * Len(Elements(s.value))
        /\ \A i \in 1..Len(Elements(s.value)) :
              /\ args[2 * i - 1] \in Flags(ListAction)
              /\ args[2 * i] = Elements(s.value)[i]
        /\ Returned
        /\ namespace.list = List(Elements(s.value))

\* C10: the append option --list set to [e1, ..., en], n >= 1, by its
\* environment variable or its config key: n (flag, element) pairs are
\* appended to the token list, in order, each element trimmed, and the
\* option is bound to the list of the elements in that order.
C10_ListSynthesis == Ended => ListSynthesis(StreamSettings)

(***************************************************************************)
(* Lists and repeated keys in config text                                  *)
(***************************************************************************)

\* the config text is one stream whose only setting gives the append option
\* --list the value [], and neither the command line nor the environment
\* gives anything
EmptyListSetting(read) ==
    \E s \in OnlySetting(read) :
        /\ config_streams # <<>>
        /\ s.action = ListAction
        /\ Strip(SubSeq(s.value, 2, Len(s.value) - 1)) = <<>>
        /\ IsBracketed(s.value)

EmptyListBinds(read) ==
    EmptyListSetting(read) => (Returned /\ namespace.list = List(<<>>))

\* C11: when config text sets the list-valued option --list to [], the
\* parse succeeds and the option is bound to the empty list.
C11_EmptyListBinds == Ended => EmptyListBinds(StreamSettings)

\* what each line of the config text sets, line by line
LineSettings(lines) == [i \in 1..Len(lines) |-> ParseLine(lines[i])]

\* the entries the provenance record holds for the config text
ConfigProvenance ==
    UNION {{source_to_settings[k].settings[j] : j \in 1..Len(source_to_settings[k].settings)} :
             k \in {n \in 1..Len(source_to_settings) :
                      source_to_settings[n].source.kind = "config_file"}}

\* the lines that set the key, and the value the last of them gives it
LinesOf(sets, key) == {i \in 1..Len(sets) : sets[i].kind = "set" /\ sets[i].key = key}

LastValue(sets, key) == sets[SetMax(LinesOf(sets, key))].value

\* every line sets a key of --arg or --list to a plain value, and each of
\* the two options is set through one spelling of its key only
PlainRepeats(sets) ==
    /\ \A i \in 1..Len(sets) :
          /\ sets[i].kind = "set"
          /\ sets[i].key \in ConfigKeys(ArgAction) \cup ConfigKeys(ListAction)
          /\ ~IsBracketed(sets[i].value)
    /\ \A a \in {ArgAction, ListAction} :
          Cardinality({sets[i].key : i \in 1..Len(sets)} \cap ConfigKeys(a)) <= 1

LastOccurrenceWins(sets) ==
    PlainRepeats(sets) =>
        \A key \in {sets[i].key : i \in 1..Len(sets)} :
            /\ key \in ConfigKeys(ArgAction) => namespace.arg = Str(LastValue(sets, key))
            /\ key \in ConfigKeys(ListAction) =>
                  namespace.list = List(<<LastValue(sets, key)>>)
            /\ \E e \in ConfigProvenance : e.key = key /\ e.value = Str(LastValue(sets, key))
            /\ Cardinality({e \in ConfigProvenance : e.key = key}) = 1

\* the parse call reads config_file_contents only
ConfigTextOnly == argv = <<>> /\ DOMAIN env_vars = {} /\ Truthy(config_file_contents)

\* C12: when a key occurs on several lines of one config text with plain
\* values, the value of its last line is the one used: the scalar option
\* --arg is bound to it, the append option --list is bound to the list that
\* holds it alone, and the provenance record lists the key once, with it.
C12_LastOccurrenceWins ==
    (Returned /\ ConfigTextOnly) => LastOccurrenceWins(LineSettings(config_file_contents.v))

RepeatedWithDifferentValues(sets) ==
    /\ PlainRepeats(sets)
    /\ \E i, j \in LinesOf(sets, s_list) : i < j /\ sets[i].value # sets[j].value
    /\ LinesOf(sets, s_arg) # {}

\* C12: --list was given two different values by two lines of the same key,
\* --arg was set too, and the parse returned
C12_Witness ==
    /\ Returned
    /\ ConfigTextOnly
    /\ RepeatedWithDifferentValues(LineSettings(config_file_contents.v))

(***************************************************************************)
(* The line grammar of config text                                         *)
(***************************************************************************)

\* the parse call reads config_file_contents only, and keeps the keys no
\* option declares
GrammarText == ConfigTextOnly /\ ~ignore_unknown_config_file_keys

\* the (key, value) pairs the provenance record holds for the config text,
\* in order: with an empty command line these are the pairs parse returned
MethodArgEntries ==
    LET at == {n \in 1..Len(source_to_settings) :
                 source_to_settings[n].source = _CONFIG_FILE_SOURCE_KEY(MethodArg)}
        Pairs(settings) ==
            [j \in 1..Len(settings) |-> [key |-> settings[j].key, value |-> settings[j].value.v]]
    IN  IF at = {} THEN <<>> ELSE Pairs(source_to_settings[SetMin(at)].settings)

\* parse raised ConfigFileParserException and the parse call ended with it
SyntaxError == outcome = "error" /\ error_msg.what = "Unexpected line"

Pair(key, value) == [key |-> key, value |-> value]

HasWS(s) == \E i \in 1..Len(s) : IsWS(s[i])

HasDelimiter(sep) == HasChar(sep, ":") \/ HasChar(sep, "=")

IsIgnored(line) ==
    \/ Strip(line) = <<>>
    \/ Strip(line)[1] \in {"#", ";", "["}
    \/ StartsWith(line, <<"-", "-", "-">>)

\* the line sets the key: the key begins the line and a separator or the
\* end of the line follows it
SetsKey(line, key) ==
    /\ StartsWith(Strip(line), key)
    /\ \/ Len(Strip(line)) = Len(key)
       \/ Strip(line)[Len(key) + 1] \in {":", "=", " ", "\t"}

FirstLineOf(lines, key) == SetMin({i \in 1..Len(lines) : SetsKey(lines[i], key)})

\* one line of config text: what it yields by its form
OneLineGrammar(line, entries) ==
    /\ IsIgnored(line) => (~SyntaxError /\ entries = <<>>)
    /\ \A key \in GrammarKeys, comment \in Comments :
          Strip(line) = key \o comment => entries = <<Pair(key, <<"t", "r", "u", "e">>)>>
    /\ \A key \in GrammarKeys, sep \in Separators, value \in PlainValues,
          comment \in Comments, pad \in Pads :
          (/\ line = pad \o key \o sep \o value \o comment \o pad
           /\ HasWS(value) => HasDelimiter(sep))
          => entries = <<Pair(key, value)>>

\* several lines: the keys come in the order of the lines that first set
\* them
KeysKeepFileOrder(lines, entries) ==
    (~SyntaxError /\ \A e \in 1..Len(entries) : entries[e].key \in GrammarKeys) =>
        /\ \A key \in GrammarKeys :
              (\E i \in 1..Len(lines) : SetsKey(lines[i], key) /\ ~IsIgnored(lines[i]))
              => \E e \in 1..Len(entries) : entries[e].key = key
        /\ \A d, e \in 1..Len(entries) :
              d < e => FirstLineOf(lines, entries[d].key) < FirstLineOf(lines, entries[e].key)

LineGrammar(lines, entries) ==
    IF Len(lines) = 1 THEN OneLineGrammar(lines[1], entries)
    ELSE KeysKeepFileOrder(lines, entries)

BlankValues(line, entries) ==
    \A key \in {g_k, s_arg}, sep \in Delimiters :
        line = key \o sep =>
            /\ entries = <<Pair(key, <<>>)>>
            /\ key = s_arg => (Returned /\ namespace.arg = Str(<<>>))

OneLine == Len(config_file_contents.v) = 1

\* C14: a line that holds a key and a : or = delimiter with nothing after
\* it is accepted and yields (key, ""), and the scalar option --arg set this
\* way is bound to the empty string.
C14_BlankValues ==
    (Ended /\ GrammarText /\ OneLine) =>
        BlankValues(config_file_contents.v[1], MethodArgEntries)

Quotes == {"\"", "'"}

\* the value without the one pair of matching quotes around it, if it has
\* one
Unquoted(value) ==
    IF Len(value) >= 2 /\ value[1] \in Quotes /\ value[Len(value)] = value[1]
    THEN SubSeq(value, 2, Len(value) - 1)
    ELSE value

QuotesRemoved(line, entries) ==
    \A sep \in Separators, value \in QuotedValues :
        line = g_k \o sep \o value => entries = <<Pair(g_k, Unquoted(value))>>

\* C15: a value wrapped in one matching pair of double or single quotes is
\* returned with exactly that pair removed; a value with an unbalanced
\* quote keeps the quote character.
C15_QuotesRemoved ==
    (Ended /\ GrammarText /\ OneLine) =>
        QuotesRemoved(config_file_contents.v[1], MethodArgEntries)

MarkersInValue(line, entries) ==
    \A sep \in Separators, value \in MarkerValues :
        line = g_k \o sep \o value => (~SyntaxError /\ entries = <<Pair(g_k, value)>>)

\* C16: a # or ; that no white space precedes is part of the value: the
\* line key=value#comment is accepted and yields (key, "value#comment").
C16_MarkersInValue ==
    (Ended /\ GrammarText /\ OneLine) =>
        MarkersInValue(config_file_contents.v[1], MethodArgEntries)

(***************************************************************************)
(* Errors in config text and in config file locations                      *)
(***************************************************************************)

\* one stream was opened and neither the command line nor the environment
\* gives anything
OneStreamOnly == argv = <<>> /\ DOMAIN env_vars = {} /\ Len(config_streams) = 1

WellFormedLines == MixedLines \ MalformedLines

\* the positions (counted from 1) of the lines of no form
MalformedAt(lines) == {i \in 1..Len(lines) : lines[i] \in MalformedLines}

\* a line of no form follows lines of the known forms
FirstMalformed(lines) ==
    /\ MalformedAt(lines) # {}
    /\ \A i \in 1..SetMin(MalformedAt(lines)) - 1 : lines[i] \in WellFormedLines

\* the parse call ended with the syntax error that names the stream and
\* the given line number, and returned nothing
SyntaxErrorAt(stream, number) ==
    /\ SyntaxError
    /\ error_msg.key = stream.name
    /\ error_msg.line_index = number
    /\ namespace = None
    /\ open_streams = {}

NumberedFromOne(stream) ==
    FirstMalformed(stream.lines) =>
        SyntaxErrorAt(stream, SetMin(MalformedAt(stream.lines)))

\* C17 as stated: a line of no form ends the parse call with a fatal error
\* whose message names the stream and the number of the line, the first
\* line of the stream being line 1, and nothing is returned.
C17_NumberedFromOne == (Ended /\ OneStreamOnly) => NumberedFromOne(config_streams[1])

NumberedFromZero(stream) ==
    FirstMalformed(stream.lines) =>
        SyntaxErrorAt(stream, SetMin(MalformedAt(stream.lines)) - 1)

\* C17: a line of no form ends the parse call with a fatal error whose
\* message names the stream and the index of the line, the first line of
\* the stream having index 0, and nothing is returned.
C17_NumberedFromZero == (Ended /\ OneStreamOnly) => NumberedFromZero(config_streams[1])

\* C17: the second line of a config file was of no form and the error names
\* the file and the index 1
C17_Witness ==
    /\ Ended
    /\ OneStreamOnly
    /\ config_streams[1].name = f0
    /\ MalformedAt(config_streams[1].lines) = {2}
    /\ SyntaxErrorAt(config_streams[1], 1)

\* the config-path options, in the order of their declaration
ConfigPathOptions == <<ConfigAction, Config2Action>>

\* the command line names files through config-path options only, each
\* option at most once, as a flag followed by the path
PathsGivenPlainly ==
    /\ \A n \in 1..Len(ConfigPathOptions) :
          NotGiven(ConfigPathOptions[n]) \/ GivenSeparately(ConfigPathOptions[n])
    /\ \A i \in 1..Len(argv) :
          \/ \E n \in 1..Len(ConfigPathOptions) : argv[i] \in Flags(ConfigPathOptions[n])
          \/ i > 1 /\ \E n \in 1..Len(ConfigPathOptions) :
                         argv[i - 1] \in Flags(ConfigPathOptions[n])

\* the paths the user names, in the order in which their options were
\* declared
UserPathList ==
    LET given == {n \in 1..Len(ConfigPathOptions) : GivenSeparately(ConfigPathOptions[n])}
        options == Pick(ConfigPathOptions, given)
    IN  [j \in 1..Len(options) |-> CommandLineValue(options[j])]

ExistingDefaults ==
    Pick(default_config_files,
         {i \in 1..Len(default_config_files) : default_config_files[i] \in DOMAIN disk})

MissingUserPaths == {j \in 1..Len(UserPathList) : UserPathList[j] \notin DOMAIN disk}

StreamNames == [n \in 1..Len(config_streams) |-> config_streams[n].name]

FileNotFound == outcome = "error" /\ error_msg.what = "File not found"

LocationErrors ==
    IF MissingUserPaths # {}
    THEN /\ FileNotFound
         /\ error_msg.key = UserPathList[SetMin(MissingUserPaths)]
         /\ namespace = None
    ELSE /\ ~FileNotFound
         /\ StreamNames = ExistingDefaults \o UserPathList

\* the parse call looks for config files: no config text is handed to it
\* and the environment is empty
FilesLocated == config_file_contents = None /\ DOMAIN env_vars = {} /\ PathsGivenPlainly

\* C19: a default config file that is not on disk is skipped and causes no
\* error; a file the user names through a config-path option that is not
\* on disk is a fatal error that names the path; the files read are the
\* default files that exist, in constructor order, then the files the user
\* names, in the order in which the options were declared.
C19_LocationErrors == (Ended /\ FilesLocated) => LocationErrors

\* C19: the default file is missing, the command line names -C before -c,
\* and the two files are read in the order -c, -C
C19_Witness ==
    /\ Returned
    /\ FilesLocated
    /\ default_config_files = <<f0>>
    /\ f0 \notin DOMAIN disk
    /\ argv = <<<<"-", "C">>, f1, <<"-", "c">>, f2>>
    /\ StreamNames = <<f2, f1>>

(***************************************************************************)
(* Writing a config file out                                               *)
(***************************************************************************)

\* the write-out option triggered: the file was written and the parse call
\* exited
WrittenOut == Ended /\ outcome = "exit" /\ contents # None /\ s_out \in DOMAIN disk

\* the options that can be set in a config file
Settable == {a \in {actions[i] : i \in 1..Len(actions)} : LongFlags(a) # {}}

\* the lines of the written file that are an entry of the option
EntriesOf(action) ==
    {i \in 1..Len(disk[s_out]) :
        \E key \in ConfigKeys(action) : StartsWith(disk[s_out][i], key \o <<" ", "=", " ">>)}

\* the command line gives the options by their flags, written in full
GivenByFlags ==
    \A a \in Settable : \A i \in 1..Len(argv) : Spells(argv[i], a) => argv[i] \in Flags(a)

\* some source gives the option: a flag of it is on the command line, its
\* environment variable is set, or a line of the config text sets a key of it
Supplied(action) ==
    \/ \E i \in 1..Len(argv) : argv[i] \in Flags(action)
    \/ EnvSet(action)
    \/ /\ config_file_contents # None
       /\ \E i \in 1..Len(config_file_contents.v), key \in ConfigKeys(action) :
             SetsKey(config_file_contents.v[i], key)

IsFlagOption(action) == action.kind \in ACTION_TYPES_THAT_DONT_NEED_A_VALUE

EveryValueWritten ==
    \A a \in Settable : NamespaceValue(namespace, a) # None => EntriesOf(a) # {}

SuppliedOrDefaultWritten ==
    \A a \in Settable :
        /\ (NamespaceValue(namespace, a) # None /\ (Supplied(a) \/ ~IsFlagOption(a)))
           => EntriesOf(a) # {}
        /\ (IsFlagOption(a) /\ ~Supplied(a)) => EntriesOf(a) = {}

StringsOrLists == \A i \in 1..Len(config_items) : config_items[i].value.t \in {"str", "list"}

\* what parse returns is the mapping m: the same keys in the same order with
\* the same values (parse returns each value as a str)
SameMapping(parsed, m) ==
    /\ parsed.ok
    /\ Len(parsed.settings) = Len(m)
    /\ \A i \in 1..Len(m) :
          /\ parsed.settings[i].key = m[i].key
          /\ Str(parsed.settings[i].value) = m[i].value

\* C18: parse applied to the text serialize made of an ordered mapping of
\* strings and lists of strings returns that mapping: the same keys in the
\* same order with the same values.
C18_RoundTrip == (WrittenOut /\ StringsOrLists) => SameMapping(parse(contents.v), config_items)

(***************************************************************************)
(* The write-out option in the written file                                *)
(***************************************************************************)

\* C21: the written file never holds an entry for the write-out option
\* itself, also when that option has a long flag and is given on the
\* command line.
C21_NoWriteOutEntry == WrittenOut => EntriesOf(WriteAction) = {}

(***************************************************************************)
(* Writing and exiting                                                     *)
(***************************************************************************)

\* parse_args has ended
Done == pc = "done"

\* the command line carries the write-out option and the path to write
\* (every path can be opened for writing)
WriteRequested ==
    /\ GivenSeparately(WriteAction)
    /\ \A i \in 1..Len(argv) - 1 : argv[i] \in Flags(WriteAction) => argv[i + 1] = s_out

\* the file holds what serialize returned
FileWritten == contents # None /\ s_out \in DOMAIN disk /\ disk[s_out] = contents.v

\* the call ended through exit with status 0 and returned nothing
ExitedWithSuccess == outcome = "exit" /\ parse_args_outcome = "exit"

\* an option registered as required that no token of the command line spells
MissingRequired ==
    \E i \in 1..Len(actions) :
        /\ actions[i].required
        /\ \A j \in 1..Len(argv) : ~Spells(argv[j], actions[i])

\* C22 as stated: every parse call whose command line carries the write-out
\* option with a path writes the file and exits with status 0; no failure
\* of the grammar validation (a missing required option, an unrecognized
\* argument) is reported in place of the write.
C22_WriteAndExit == (Done /\ WriteRequested) => (FileWritten /\ ExitedWithSuccess)

\* C22: when the command line carries the write-out option with a path and
\* the flag engine binds the token list, the file is written and the call
\* exits with status 0 without returning, and the leftover check of
\* parse_args reports nothing; when the merge or the flag engine fails (a
\* required option is missing), the failure is reported and no file is
\* written.
C22_WriteAfterBinding ==
    (Done /\ WriteRequested) =>
        /\ IF namespace # None /\ outcome # "error"
           THEN FileWritten /\ ExitedWithSuccess /\ error_msg = NoMsg
           ELSE /\ contents = None /\ s_out \notin DOMAIN disk
                /\ outcome = parse_args_outcome /\ outcome \in {"error", "exit"}
        /\ MissingRequired => outcome = "error" /\ namespace = None

\* C22: a file was written and the call exited although the command line
\* held an argument that no option declares
C22_Witness ==
    /\ Done /\ WriteRequested
    /\ unknown_args # <<>>
    /\ FileWritten /\ ExitedWithSuccess

\* a parse call that asked for the file was ended by a missing required
\* option
C22_MissingRequired ==
    /\ Done /\ WriteRequested /\ MissingRequired
    /\ error_msg.what = "the following arguments are required"

(***************************************************************************)
(* The registry of named parsers: initArgumentParser, getArgumentParser    *)
(***************************************************************************)

s_default == <<"d", "e", "f", "a", "u", "l", "t">>

\* the names the calls are made with: None, "default" and two more
RegistryNames == {None, Str(s_default), Str(<<"n", "1">>), Str(<<"n", "2">>)}

\* the constructor options the calls are made with (**kwargs): none, or
\* prog and usage, or a formatter_class
RegistryKwargs ==
    {<<>>, [k \in {"prog", "usage"} |-> k], [k \in {"formatter_class"} |-> "HelpFormatter"]}

\* if name is None: name = "default"
RegistryName(name) == IF name = None THEN s_default ELSE name.v

\* kwargs.setdefault(key, value)
SetDefault(kwargs, key, value) ==
    IF key \in DOMAIN kwargs THEN kwargs
    ELSE [k \in DOMAIN kwargs \cup {key} |-> IF k = key THEN value ELSE kwargs[k]]

\* ArgumentParser(**kwargs): an instance that none of those stored is
NewParser(parsers, kwargs) ==
    LET ids == {parsers[n].id : n \in DOMAIN parsers}
    IN  [id |-> IF ids = {} THEN 1 ELSE 1 + CHOOSE i \in ids : \A j \in ids : j <= i,
         kwargs |-> kwargs]

\* _parsers[name] = instance
Store(parsers, name, instance) ==
    [n \in DOMAIN parsers \cup {name} |-> IF n = name THEN instance ELSE parsers[n]]

\* an initArgumentParser that does not look whether the name exists
initArgumentParserAnew(parsers, name, kwargs) ==
    [raised |-> "",
     parsers |-> Store(parsers, RegistryName(name),
                       NewParser(parsers,
                                 SetDefault(SetDefault(kwargs, "formatter_class",
                                                       "ArgumentDefaultsHelpFormatter"),
                                            "conflict_handler", "resolve")))]

\* initArgumentParser(name, **kwargs): the registry afterwards, and the
\* exception raised, if any
initArgumentParser(parsers, name, kwargs) ==
    IF RegistryName(name) \in DOMAIN parsers
    THEN [raised |-> "ValueError", parsers |-> parsers]
    ELSE [raised |-> "",
          parsers |-> Store(parsers, RegistryName(name),
                            NewParser(parsers,
                                      SetDefault(SetDefault(kwargs, "formatter_class",
                                                            "ArgumentDefaultsHelpFormatter"),
                                                 "conflict_handler", "resolve")))]

\* getArgumentParser(name, **kwargs): the registry afterwards, and the
\* instance returned or the exception raised
getArgumentParser(parsers, name, kwargs) ==
    LET Return(made) ==
            IF made.raised # "" THEN [made EXCEPT !.returned = None]
            ELSE [made EXCEPT !.returned = made.parsers[RegistryName(name)]]
    IN  Return(IF DOMAIN kwargs # {} \/ RegistryName(name) \notin DOMAIN parsers
               THEN [returned |-> None] @@ initArgumentParser(parsers, name, kwargs)
               ELSE [raised |-> "", parsers |-> parsers, returned |-> None])

\* a call of initArgumentParser
InitArgumentParser ==
    \E name \in RegistryNames, kwargs \in RegistryKwargs :
        LET Call(r) ==
                /\ _parsers' = r.parsers
                /\ registry_call' = [op |-> "initArgumentParser", name |-> name,
                                     kwargs |-> kwargs, raised |-> r.raised,
                                     returned |-> None]
        IN  /\ Call(initArgumentParser(_parsers, name, kwargs))
            /\ UNCHANGED <<parse_vars, registration>>

\* a call of getArgumentParser
GetArgumentParser ==
    \E name \in RegistryNames, kwargs \in RegistryKwargs :
        LET Call(r) ==
                /\ _parsers' = r.parsers
                /\ registry_call' = [op |-> "getArgumentParser", name |-> name,
                                     kwargs |-> kwargs, raised |-> r.raised,
                                     returned |-> r.returned]
        IN  /\ Call(getArgumentParser(_parsers, name, kwargs))
            /\ UNCHANGED <<parse_vars, registration>>

\* the module as imported: nothing is stored (_parsers = {}); no parse call
\* is under way
RegistryInit == InitWith(Input(FALSE, <<>>, <<>>, <<>>, EmptyEnv, None))

RegistryNext == InitArgumentParser \/ GetArgumentParser

RegistrySpec == RegistryInit /\ [][RegistryNext]_vars

\* what a call that found no instance under the name did: it stored one new
\* instance under that name and returned it
CreatedOne(call) ==
    /\ call.raised = ""
    /\ DOMAIN _parsers' = DOMAIN _parsers \cup {RegistryName(call.name)}
    /\ \A n \in DOMAIN _parsers : _parsers'[RegistryName(call.name)].id # _parsers[n].id
    /\ call.op = "getArgumentParser" => call.returned = _parsers'[RegistryName(call.name)]

\* what a call that found an instance under the name did: without
\* constructor options getArgumentParser returned that instance, any other
\* call raised ValueError
ReusedOrRefused(call) ==
    /\ DOMAIN _parsers' = DOMAIN _parsers
    /\ IF call.op = "getArgumentParser" /\ DOMAIN call.kwargs = {}
       THEN call.raised = "" /\ call.returned = _parsers[RegistryName(call.name)]
       ELSE call.raised = "ValueError" /\ call.returned = None

\* no stored instance is replaced or removed
InstancesKept ==
    \A n \in DOMAIN _parsers : n \in DOMAIN _parsers' /\ _parsers'[n] = _parsers[n]

RegistryLaw ==
    /\ InstancesKept
    /\ IF RegistryName(registry_call'.name) \notin DOMAIN _parsers
       THEN CreatedOne(registry_call')
       ELSE ReusedOrRefused(registry_call')

\* C23: over any sequence of getArgumentParser and initArgumentParser calls
\* and for each name (None meaning "default"), the first call for the name
\* creates and stores exactly one parser, every later getArgumentParser call
\* without constructor options returns that instance, every other later
\* call raises ValueError and leaves the registry as it was, and a stored
\* instance is never replaced or removed.
C23_Registry == [][RegistryLaw]_vars

\* C23: getArgumentParser without options returned, under the name None, the
\* instance stored by an earlier call (another one was created after it),
\* chosen options and all
C23_Witness ==
    /\ registry_call # None
    /\ registry_call.op = "getArgumentParser"
    /\ registry_call.name = None /\ DOMAIN registry_call.kwargs = {}
    /\ registry_call.returned = _parsers[s_default]
    /\ "prog" \in DOMAIN _parsers[s_default].kwargs
    /\ \E n \in DOMAIN _parsers : _parsers[n].id > _parsers[s_default].id

(***************************************************************************)
(* Registering options: add_argument                                       *)
(***************************************************************************)

\* the most options registered on top of those of RegisteredActions
MaxRegistrations == 2

\* the add_argument calls made: a positional "p" or an optional "--o", with
\* action 'store' or 'store_true', with or without env_var,
\* is_config_file_arg and is_write_out_config_file_arg
Registrations ==
    {[name_or_flags |-> names, action |-> kind, env_var |-> env,
      is_config_file_arg |-> cf, is_write_out_config_file_arg |-> wo] :
        names \in {<<<<"p">>>>, <<<<"-", "-", "o">>>>},
        kind \in {"store", "store_true"}, env \in {None, Str(<<"E">>)},
        cf \in BOOLEAN, wo \in BOOLEAN}

\* argparse's add_argument (original_add_argument_method): the action it
\* builds from the names and the keyword arguments that are its own
ArgparseAction(call) ==
    LET optional == call.name_or_flags[1][1] \in PrefixCharSet
    IN  [dest |-> IF optional THEN "o" ELSE "p",
         option_strings |-> IF optional THEN call.name_or_flags ELSE <<>>,
         kind |-> call.action,
         default |-> IF call.action = "store_true" THEN Bool(FALSE) ELSE None,
         required |-> ~optional,
         env_var |-> None, is_config_file_arg |-> FALSE,
         is_write_out_config_file_arg |-> FALSE, is_positional_arg |-> ~optional]

\* argparse's _check_conflict: an option string of the action is already
\* registered (conflict_handler='error')
Conflicts(acts, action) ==
    \E i \in 1..Len(acts), j \in 1..Len(action.option_strings) :
        InList(acts[i].option_strings, action.option_strings[j])

\* an add_argument that checks nothing of its own
add_argument_unchecked(acts, call) ==
    LET action == [ArgparseAction(call) EXCEPT
                      !.env_var = call.env_var,
                      !.is_config_file_arg = call.is_config_file_arg,
                      !.is_write_out_config_file_arg = call.is_write_out_config_file_arg]
    IN  IF Conflicts(acts, action)
        THEN [raised |-> "ArgumentError", actions |-> acts, returned |-> None]
        ELSE [raised |-> "", actions |-> Append(acts, action), returned |-> action]

\* add_argument(self, *args, **kwargs): the registered actions afterwards,
\* and the action returned or the exception raised. argparse registers the
\* action (or raises ArgumentError) before the checks of lines 742-753
add_argument(acts, call) ==
    LET action == [ArgparseAction(call) EXCEPT
                      !.env_var = call.env_var,
                      !.is_config_file_arg = call.is_config_file_arg,
                      !.is_write_out_config_file_arg = call.is_write_out_config_file_arg]
        Raise(registered) ==
            [raised |-> "ValueError", actions |-> registered, returned |-> None]
    IN  IF Conflicts(acts, action)
        THEN [raised |-> "ArgumentError", actions |-> acts, returned |-> None]
        ELSE IF action.is_positional_arg /\ Truthy(call.env_var)
        THEN Raise(Append(acts, action))
        ELSE IF action.is_config_file_arg /\ action.kind # "store"
        THEN Raise(Append(acts, action))
        ELSE IF action.is_write_out_config_file_arg
                /\ (action.kind # "store" \/ call.is_config_file_arg)
        THEN Raise(Append(acts, action))
        ELSE [raised |-> "", actions |-> Append(acts, action), returned |-> action]

\* a call of add_argument on the parser, between parse calls
AddArgument ==
    /\ pc = "start"
    /\ Len(actions) < Len(RegisteredActions) + MaxRegistrations
    /\ \E call \in Registrations :
          LET Register(r) ==
                  /\ actions' = r.actions
                  /\ registration' = [call |-> call, raised |-> r.raised,
                                      returned |-> r.returned]
          IN  Register(add_argument(actions, call))
    /\ UNCHANGED <<ignore_unknown_config_file_keys, default_config_files,
                   auto_env_var_prefix, source_to_settings, input_vars, pc, args,
                   config_streams, stream_index, open_streams, namespace, unknown_args,
                   outcome, error_msg, parse_args_outcome, config_settings, writer_vars,
                   calls, constructor_kwargs, _parsers, registry_call>>

\* the parser of the tests, before any parse call
RegistrationInit == InitWith(Input(FALSE, <<>>, <<>>, <<>>, EmptyEnv, None))

RegistrationNext == AddArgument

RegistrationSpec == RegistrationInit /\ [][RegistrationNext]_vars

\* the call names a positional option
IsPositional(call) == call.name_or_flags[1][1] # "-"

\* none of the names of the call is a flag of a registered option
NamesAreNew(call) ==
    \A i \in 1..Len(actions), j \in 1..Len(call.name_or_flags) :
        call.name_or_flags[j] \notin Flags(actions[i])

\* the registrations add_argument rejects
Rejected(call) ==
    \/ IsPositional(call) /\ call.env_var # None
    \/ call.is_config_file_arg /\ call.action # "store"
    \/ call.is_write_out_config_file_arg /\ call.action # "store"
    \/ call.is_config_file_arg /\ call.is_write_out_config_file_arg

RegistrationValidation ==
    NamesAreNew(registration'.call) =>
        IF Rejected(registration'.call)
        THEN registration'.raised = "ValueError" /\ registration'.returned = None
        ELSE /\ registration'.raised = ""
             /\ registration'.returned = actions'[Len(actions')]
             /\ registration'.returned.kind = registration'.call.action
             /\ registration'.returned.env_var = registration'.call.env_var
             /\ IF IsPositional(registration'.call)
                THEN registration'.returned.option_strings = <<>>
                ELSE registration'.returned.option_strings = registration'.call.name_or_flags

\* C24: add_argument raises ValueError when a positional option is given
\* env_var, when is_config_file_arg or is_write_out_config_file_arg is set
\* on an option whose action is not 'store', or when one option has both;
\* a registration with none of these returns the option's action.
C24_RegistrationValidation == [][RegistrationValidation]_vars

\* C24: after a positional with env_var was rejected, the same positional
\* without env_var was accepted and its action returned
C24_Witness ==
    /\ registration # None
    /\ registration.raised = ""
    /\ IsPositional(registration.call) /\ registration.returned.dest = "p"
    /\ Len(actions) = Len(RegisteredActions) + 2
    /\ actions[Len(actions) - 1].is_positional_arg
    /\ actions[Len(actions) - 1].env_var # None

\* C30: when add_argument raises ValueError for one of its own checks, the
\* parser's list of registered options is what it was before the call.
C30_RejectedHasNoEffect == [][registration'.raised = "ValueError" => actions' = actions]_vars

(***************************************************************************)
(* The deprecated allow_unknown_config_file_keys                           *)
(***************************************************************************)

\* the config text sets the key zz, which no option declares, and the
\* command line does not hold --zz
UndeclaredKeySet ==
    /\ config_file_contents # None
    /\ \E i \in 1..Len(config_file_contents.v) : SetsKey(config_file_contents.v[i], s_zz)
    /\ ~InList(argv, dd \o s_zz)

\* C26: with allow_unknown_config_file_keys True (and
\* ignore_unknown_config_file_keys left False) a config-file setting that
\* matches no declared option is appended to the token list, so
\* parse_known_args returns it in its leftover list; with it False the
\* setting is ignored.
C26_AllowUnknownKeys ==
    (Returned /\ UndeclaredKeySet /\ ~constructor_kwargs.ignore_unknown_config_file_keys) =>
        (constructor_kwargs.allow_unknown_config_file_keys <=> InList(unknown_args, dd \o s_zz))

(***************************************************************************)
(* Config file handles                                                     *)
(***************************************************************************)

\* C29: when parse_known_args ends, by returning, by a syntax error in a
\* config file or by a missing user-specified config file, every config
\* file opened during the call has been closed.
C29_NoHandleLeftOpen == Ended => open_streams = {}

(***************************************************************************)
(* Successive parse calls on one parser                                    *)
(***************************************************************************)

s_a_b == <<"a", "-", "b">>

\* add_argument("-m", "--a-b"): a scalar option with a dash in its long
\* flag and no env_var (tests/test_basicuse.py 633: "-w", "--arg4-more")
MoreAction ==
    [dest |-> "a_b", option_strings |-> <<<<"-", "m">>, <<"-", "-">> \o s_a_b>>,
     kind |-> "store", default |-> None, required |-> FALSE, env_var |-> None,
     is_config_file_arg |-> FALSE, is_write_out_config_file_arg |-> FALSE,
     is_positional_arg |-> FALSE]

\* the options of the session parser, as registered
SessionActions == Append(RegisteredActions, MoreAction)

\* auto_env_var_prefix="T_"
T_ == <<"T", "_">>

n_T_A_B == <<"T", "_", "A", "_", "B">>

n_T_ARG == <<"T", "_", "A", "R", "G">>

n_T_CONFIG == <<"T", "_", "C", "O", "N", "F", "I", "G">>

n_T_WRITE_CONFIG == <<"T", "_", "W", "R", "I", "T", "E", "_", "C", "O", "N", "F", "I", "G">>

v_auto == <<"m">>

\* what the environment holds in a call: nothing, the automatic name of
\* --a-b, the automatic name that --arg (env_var="ARG") would have had, ARG
\* itself, and the automatic names that the config-path and the write-out
\* option would have had
SessionEnvs ==
    {EmptyEnv,
     n_T_A_B :> v_auto,
     n_T_ARG :> v_auto,
     (n_ARG :> v_env) @@ (n_T_A_B :> v_auto),
     (n_T_CONFIG :> f2) @@ (n_T_WRITE_CONFIG :> s_out),
     (n_T_CONFIG :> f2) @@ (n_T_A_B :> v_auto) @@ (n_T_ARG :> v_auto)}

SessionCommandLines ==
    {<<>>, <<dd \o s_a_b, v_cl>>, <<dd \o s_arg, v_cl>>, <<<<"-", "w">>, s_out>>}

SessionTexts ==
    {None, Str(<<Line(s_a_b, v_cfg)>>), Str(<<Line(s_arg, v_cfg), Line(s_flag, <<"t", "r", "u", "e">>)>>)}

\* the arguments of a parse call: the command line, the environment and
\* the config text
SessionCalls ==
    {[argv |-> cl, env_vars |-> env, config_file_contents |-> text] :
        cl \in SessionCommandLines, env \in SessionEnvs, text \in SessionTexts}

\* a parser built with and without auto_env_var_prefix, and its first call;
\* f2 is on disk and no option names it
SessionInputs ==
    {[Input(FALSE, <<>>, f2 :> <<Line(s_arg, <<"c", "0">>)>>, c.argv, c.env_vars,
            c.config_file_contents)
        EXCEPT !.auto_env_var_prefix = prefix] :
        prefix \in {None, Str(T_)}, c \in SessionCalls}

MaxCalls == 2

\* lines 222-237: parse_args is called once more on the same parser; the
\* locals of the call start afresh, the parser and the disk are as the
\* calls before have left them
ParseAgain ==
    /\ pc = "done"
    /\ calls < MaxCalls
    /\ calls' = calls + 1
    /\ \E c \in SessionCalls :
          /\ argv' = c.argv
          /\ env_vars' = c.env_vars
          /\ config_file_contents' = c.config_file_contents
    /\ pc' = "start"
    /\ args' = <<>>
    /\ config_streams' = <<>>
    /\ stream_index' = 1
    /\ open_streams' = {}
    /\ namespace' = None
    /\ unknown_args' = <<>>
    /\ outcome' = "running"
    /\ error_msg' = NoMsg
    /\ parse_args_outcome' = "running"
    /\ config_settings' = <<>>
    /\ config_items' = <<>>
    /\ contents' = None
    /\ UNCHANGED <<parser_vars, source_to_settings, disk, constructor_kwargs,
                   _parsers, registry_call, registration>>

SessionInit == \E in \in SessionInputs : InitOf(SessionActions, in)

SessionNext == Next \/ ParseAgain

SessionSpec == SessionInit /\ [][SessionNext]_vars

(***************************************************************************)
(* C25: automatic environment binding                                      *)
(***************************************************************************)

\* the first long flag of the option as declared, without its dashes
LongName(declared) ==
    From(declared.option_strings[SetMin({i \in 1..Len(declared.option_strings) :
            StartsWith(declared.option_strings[i], dd)})], 3)

\* the option as declared can be bound automatically
BoundAutomatically(declared) ==
    /\ LongFlags(declared) # {}
    /\ declared.env_var = None
    /\ declared.option_strings # <<>>
    /\ ~declared.is_config_file_arg
    /\ ~declared.is_write_out_config_file_arg

\* the variable the option as declared is to read: its own env_var, or with
\* a prefix the prefix and its long-flag name, dashes turned into
\* underscores and letters upper-cased
BoundVariable(declared, prefix) ==
    IF prefix # None /\ BoundAutomatically(declared)
    THEN Str(prefix.v \o Upper(Replace(LongName(declared), "-", "_")))
    ELSE declared.env_var

\* every option of the parser reads the variable it is to read
BindingOf(declared) ==
    \A i \in 1..Len(declared) :
        actions[i].env_var = BoundVariable(declared[i], auto_env_var_prefix)

\* what parse_known_args returns with a prefix: --a-b takes the value of
\* T_A_B unless the command line gives it, --arg (env_var="ARG") does not
\* take the value of T_ARG, the config-path option does not take the value
\* of T_CONFIG and its file is not read, the write-out option does not take
\* the value of T_WRITE_CONFIG and the call writes nothing
ReadsBoundVariables ==
    /\ (n_T_A_B \in DOMAIN env_vars /\ NotGiven(MoreAction))
          => namespace.a_b = Str(env_vars[n_T_A_B])
    /\ n_T_ARG \in DOMAIN env_vars => namespace.arg # Str(env_vars[n_T_ARG])
    /\ n_T_CONFIG \in DOMAIN env_vars
          => /\ namespace.config_file = None
             /\ \A i \in 1..Len(config_streams) : config_streams[i].name # env_vars[n_T_CONFIG]
    /\ (n_T_WRITE_CONFIG \in DOMAIN env_vars /\ NotGiven(WriteAction))
          => /\ namespace.write_out_config_file_to_this_path = None
             /\ contents = None

\* the first parse call has bound the options
BindingDone == pc # "start" \/ calls > 1

TokensFor(action, key, value) == convert_setting_to_command_line_arg(action, key, value).args

\* the option of the parser with that dest (None for a key no option
\* declares)
OptionOf(ref) ==
    IF ref = None THEN None
    ELSE actions[SetMin({i \in 1..Len(actions) : actions[i].dest = ref.dest})]

\* the tokens of the environment variables, in the order the options are
\* declared in: one group for every option that has its variable set and
\* none of its flags among the literal tokens
EnvironmentTokens ==
    Flatten([i \in 1..Len(actions) |->
        IF /\ actions[i].option_strings # <<>>
           /\ actions[i].env_var # None
           /\ actions[i].env_var.v \in DOMAIN env_vars
           /\ Flags(actions[i]) \cap {argv[j] : j \in 1..Len(argv)} = {}
        THEN TokensFor(actions[i], actions[i].env_var.v, env_vars[actions[i].env_var.v])
        ELSE <<>>])

\* the tokens of the config-file entries of the provenance record, block by
\* block in the order the files were read in
ConfigFileTokens ==
    Flatten([b \in 1..Len(source_to_settings) |->
        IF source_to_settings[b].source.kind # "config_file" THEN <<>>
        ELSE Flatten([e \in 1..Len(source_to_settings[b].settings) |->
                TokensFor(OptionOf(source_to_settings[b].settings[e].action),
                          source_to_settings[b].settings[e].key,
                          source_to_settings[b].settings[e].value.v)])])

\* the token list is being built or has been handed to the flag engine
TokenListBuilt == pc # "start" /\ outcome # "error"

TokenListShape(literal, synthesized) == args = literal \o synthesized

BlocksOf(kind) ==
    {b \in 1..Len(source_to_settings) : source_to_settings[b].source.kind = kind}

\* the entries of the blocks of that kind
EntriesIn(kind) ==
    UNION {{[block |-> b, entry |-> source_to_settings[b].settings[e]] :
                e \in 1..Len(source_to_settings[b].settings)} : b \in BlocksOf(kind)}

RankOf(kind) ==
    CASE kind = "command_line" -> 1
      [] kind = "environment_variables" -> 2
      [] kind = "config_file" -> 3
      [] kind = "defaults" -> 4

\* the blocks come in the order command line, environment, config files,
\* defaults, no source twice
BlocksInOrder ==
    \A b, c \in 1..Len(source_to_settings) :
        b < c => /\ RankOf(source_to_settings[b].source.kind)
                      <= RankOf(source_to_settings[c].source.kind)
                 /\ source_to_settings[b].source # source_to_settings[c].source

\* the command-line block holds the literal tokens of the call, and is left
\* out when there are none
CommandLineEntryIsLiteral ==
    IF argv = <<>> THEN BlocksOf("command_line") = {}
    ELSE /\ BlocksOf("command_line") = {1}
         /\ source_to_settings[1].settings =
               <<[key |-> <<>>, action |-> None, value |-> List(argv)]>>

\* the tokens stand in the token list after the literal tokens
Appended(tokens) ==
    /\ tokens # <<>>
    /\ \E k \in (Len(argv) + 1)..Len(args) :
          /\ k + Len(tokens) - 1 <= Len(args)
          /\ SubSeq(args, k, k + Len(tokens) - 1) = tokens

\* no flag of the option the entry belongs to is among the literal tokens
NotOverridden(e) ==
    e.action # None => Flags(OptionOf(e.action)) \cap {argv[j] : j \in 1..Len(argv)} = {}

\* an environment entry names a variable of this call that an option reads,
\* with the value it has in this call, and its tokens were appended
EnvironmentEntriesOfThisCall ==
    \A x \in EntriesIn("environment_variables") :
        /\ x.entry.key \in DOMAIN env_vars
        /\ x.entry.value = Str(env_vars[x.entry.key])
        /\ x.entry.action # None
        /\ OptionOf(x.entry.action).env_var = Str(x.entry.key)
        /\ NotOverridden(x.entry)
        /\ Appended(TokensFor(OptionOf(x.entry.action), x.entry.key, x.entry.value.v))

\* a config-file entry is a setting of a stream this call has read, of an
\* option the environment has not set in this call, and its tokens were
\* appended
ConfigEntriesOfThisCall ==
    \A x \in EntriesIn("config_file") :
        /\ \E n \in 1..Len(config_streams) :
              /\ config_streams[n].name = source_to_settings[x.block].source.name
              /\ \E i \in 1..Len(SettingsOf(config_streams[n])) :
                    /\ SettingsOf(config_streams[n])[i].key = x.entry.key
                    /\ Str(SettingsOf(config_streams[n])[i].value) = x.entry.value
        /\ NotOverridden(x.entry)
        /\ \A y \in EntriesIn("environment_variables") : y.entry.action # x.entry.action
        /\ Appended(TokensFor(OptionOf(x.entry.action), x.entry.key, x.entry.value.v))

\* a defaults entry is the default of an option that no token of the list
\* of this call names
DefaultEntriesOfThisCall ==
    \A x \in EntriesIn("defaults") :
        /\ x.entry.action # None
        /\ x.entry.value = Str(StrOf(OptionOf(x.entry.action).default))
        /\ Flags(OptionOf(x.entry.action)) \cap {args[j] : j \in 1..Len(args)} = {}

ProvenanceOfThisCall ==
    /\ CommandLineEntryIsLiteral
    /\ BlocksInOrder
    /\ EnvironmentEntriesOfThisCall
    /\ ConfigEntriesOfThisCall
    /\ DefaultEntriesOfThisCall

====
